---- MODULE Spec2Model ----
(***************************************************************************)
(* Model of the offline-first data layer of hobby-tracker: the Dexie       *)
(* tables, the sync-aware BaseService, the Category / Hobby / Goal entity  *)
(* services, the SyncService status tracker and the change notifier.       *)
(***************************************************************************)
EXTENDS Integers, Sequences, FiniteSets, TLC

VARIABLES db, now, bus, lastOp, events, channel, closed, calls, completionCache, storeCalls, relations, inflight

vars == <<db, now, bus, lastOp, events, channel, closed, calls, completionCache, storeCalls, relations, inflight>>

(***************************************************************************)
(* Bounds                                                                  *)
(***************************************************************************)
MaxId == 2
MaxRows == 4
MaxTime == 2
MaxVal == 2
MaxCountRows == 4
MaxOffline == 51
MaxSubscribers == 3
MaxInFlight == 2
MaxClock == 60001
MaxRecords == 2
MaxBatch == 2
MaxSetups == 2
MaxTabs == 2

Ids == 1..MaxId
Times == 1..MaxTime
Vals == 1..MaxVal

(***************************************************************************)
(* Vocabulary                                                              *)
(***************************************************************************)
TableNames == <<"categories", "hobbies", "goals", "progress">>
Tables == {TableNames[i] : i \in 1..4}

SYNCED == "synced"
PENDING == "pending"
SYNCING == "syncing"
CONFLICT == "conflict"
FAILED == "failed"
OFFLINE == "offline"
SyncStatus == {SYNCED, PENDING, SYNCING, CONFLICT, FAILED, OFFLINE}

CREATE == "create"
UPDATE == "update"
DELETE == "delete"
NONE == "none"
SyncOperationType == {CREATE, UPDATE, DELETE, NONE}

\* A property that is absent from a stored object.  Numeric properties use 0
\* (timestamps) or -1 (retryCount), string properties use "undefined".
Undef == "undefined"
Null == "null"
NoTime == 0
NoCount == -1

SYNC_FIELDS == {"syncStatus", "lastSyncedAt", "localUpdatedAt", "serverUpdatedAt", "pendingOperation", "conflictData", "errorMessage", "retryCount", "lastAttemptAt"}

\* Partial<SyncMetadata> with every property absent.
EmptyMeta == [lastSyncedAt |-> NoTime, localUpdatedAt |-> NoTime, serverUpdatedAt |-> NoTime, pendingOperation |-> Undef, conflictData |-> Undef, errorMessage |-> Undef, retryCount |-> NoCount, lastAttemptAt |-> NoTime]

\* A stored object without any sync property: parent is the foreign key
\* (categoryId / hobbyId / goalId, 0 for a category), name the domain payload.
SyncableEntity(parent, name) == [parent |-> parent, name |-> name, syncStatus |-> Undef, lastSyncedAt |-> NoTime, localUpdatedAt |-> NoTime, serverUpdatedAt |-> NoTime, pendingOperation |-> Undef, conflictData |-> Undef, errorMessage |-> Undef, retryCount |-> NoCount, lastAttemptAt |-> NoTime]

DomainOf(row) == [parent |-> row.parent, name |-> row.name]

EmptyDb == [t \in Tables |-> <<>>]

Has(d, t, id) == id \in DOMAIN d[t]

RowCount(d) == Cardinality(DOMAIN d["categories"]) + Cardinality(DOMAIN d["hobbies"]) + Cardinality(DOMAIN d["goals"]) + Cardinality(DOMAIN d["progress"])

(***************************************************************************)
(* Dexie table primitives                                                  *)
(***************************************************************************)
TablePut(d, t, id, row) == [d EXCEPT ![t] = [i \in (DOMAIN d[t]) \cup {id} |-> IF i = id THEN row ELSE d[t][i]]]

TableDelete(d, t, id) == [d EXCEPT ![t] = [i \in (DOMAIN d[t]) \ {id} |-> d[t][i]]]

WhereParentEquals(d, t, parent) == {i \in DOMAIN d[t] : d[t][i].parent = parent}

WhereParentDelete(d, t, parent) == [d EXCEPT ![t] = [i \in (DOMAIN d[t]) \ WhereParentEquals(d, t, parent) |-> d[t][i]]]

WhereStatusCount(d, t, status) == Cardinality({i \in DOMAIN d[t] : d[t][i].syncStatus = status})

ToArray(S) ==
  IF S = {} THEN <<>>
  ELSE LET last == CHOOSE x \in S : \A y \in S : y <= x
       IN SelectSeq([i \in 1..last |-> i], LAMBDA i : i \in S)

(***************************************************************************)
(* Event bus log: what one operation published, in order                   *)
(***************************************************************************)
ENTITY_SYNC_STATUS_CHANGED == "sync:entity:status:changed"
GLOBAL_SYNC_STATUS_CHANGED == "sync:global:status:changed"
DATABASE_CHANGED == "database:changed"

\* inTxn records whether a Dexie transaction of the publishing operation was
\* still open (not yet committed) when the entry was published.
SyncEntry(type, t, id, old, new, inTxn) == [ch |-> "bus", type |-> type, table |-> t, id |-> id, key |-> "entityId", old |-> old, new |-> new, pending |-> 0, failed |-> 0, conflict |-> 0, inTxn |-> inTxn, source |-> Undef]

GlobalEntry(p, f, c, inTxn) == [ch |-> "bus", type |-> GLOBAL_SYNC_STATUS_CHANGED, table |-> "", id |-> 0, key |-> "", old |-> "", new |-> "", pending |-> p, failed |-> f, conflict |-> c, inTxn |-> inTxn, source |-> Undef]

\* One entry of a data-change notification; key names the property of the
\* payload that carries id ("id" for the row itself, "goalId" / "hobbyId" /
\* "categoryId" for a level of a cascade, "count" for an aggregate).
DataEntry(ch, type, id, key, inTxn) == [ch |-> ch, type |-> type, table |-> "", id |-> id, key |-> key, old |-> "", new |-> "", pending |-> 0, failed |-> 0, conflict |-> 0, inTxn |-> inTxn, source |-> Undef]

CATEGORY_ADDED == "category:added"
CATEGORY_UPDATED == "category:updated"
CATEGORY_DELETED == "category:deleted"
CATEGORY_CHANGED == "category:changed"
HOBBY_ADDED == "hobby:added"
HOBBY_UPDATED == "hobby:updated"
HOBBY_DELETED == "hobby:deleted"
HOBBY_CHANGED == "hobby:changed"
GOAL_ADDED == "goal:added"
GOAL_UPDATED == "goal:updated"
GOAL_DELETED == "goal:deleted"
GOAL_CHANGED == "goal:changed"
PROGRESS_ADDED == "progress:added"
PROGRESS_UPDATED == "progress:updated"
PROGRESS_DELETED == "progress:deleted"
PROGRESS_CHANGED == "progress:changed"
SYNC_STARTED == "sync:started"
SYNC_COMPLETED == "sync:completed"
SYNC_FAILED == "sync:failed"

\* The values of the DataEvent enum.
DataEvent ==
  {CATEGORY_CHANGED, CATEGORY_ADDED, CATEGORY_UPDATED, CATEGORY_DELETED,
   HOBBY_CHANGED, HOBBY_ADDED, HOBBY_UPDATED, HOBBY_DELETED,
   GOAL_CHANGED, GOAL_ADDED, GOAL_UPDATED, GOAL_DELETED,
   PROGRESS_CHANGED, PROGRESS_ADDED, PROGRESS_UPDATED, PROGRESS_DELETED,
   DATABASE_CHANGED,
   SYNC_STARTED, SYNC_COMPLETED, SYNC_FAILED}

\* DbChangeObserver.notifyChange: local publish, cross-tab post, umbrella event.
\* The DataEventPayload wrapper {type, data, timestamp, source} around the data
\* of an entry; an entry with source Undef carries the bare data.
Wrapped(entry, source) == [entry EXCEPT !.source = source]

notifyChange(event, id, key, inTxn) ==
  << Wrapped(DataEntry("bus", event, id, key, inTxn), "local"),
     Wrapped(DataEntry("channel", event, id, key, inTxn), "local"),
     DataEntry("bus", DATABASE_CHANGED, id, key, inTxn) >>

(***************************************************************************)
(* Errors and executeDbOperation                                           *)
(***************************************************************************)
NoError == [name |-> "", message |-> ""]

\* The exceptions the store (and the broadcast channel) raises.
ConstraintError == [name |-> "ConstraintError", message |-> "Key already exists in the object store."]

DatabaseClosedError == [name |-> "DatabaseClosedError", message |-> "Database has been closed"]

\* channel.postMessage(payload) on a BroadcastChannel that was closed.
InvalidStateError == [name |-> "InvalidStateError", message |-> "BroadcastChannel is closed."]

\* Dexie's table.bulkAdd(items) when k of the n items were refused: the
\* message lists each different failure once.
BulkError(t, k, n) ==
  [name |-> "BulkError",
   message |-> t \o ".bulkAdd(): " \o ToString(k) \o " of " \o ToString(n) \o " operations failed. Errors: "
                 \o ConstraintError.name \o ": " \o ConstraintError.message]

\* No store call rejects on its own account.
NoFault == [at |-> 0, error |-> NoError]

Faults(n) == {NoFault} \cup {[at |-> k, error |-> DatabaseClosedError] : k \in 1..n}

\* The errorMessage argument of each operation (the source's sentences are
\* Chinese; they are rendered in English here).
Description(op, id) ==
  CASE op = "getAll" -> "get all records failed"
    [] op = "getById" -> "get record with ID " \o ToString(id) \o " failed"
    [] op = "add" -> "add record failed"
    [] op = "update" -> "update record with ID " \o ToString(id) \o " failed"
    [] op = "delete" -> "delete record with ID " \o ToString(id) \o " failed"
    [] op = "bulkAdd" -> "bulk add records failed"
    [] op = "bulkPut" -> "bulk put records failed"
    [] op = "bulkDelete" -> "bulk delete records failed"
    [] op = "hasRelated" -> "check related records of ID " \o ToString(id) \o " failed"
    [] op = "deleteWithRelated" -> "delete record with ID " \o ToString(id) \o " and its related records failed"
    [] op = "calculateCompletion" -> "calculate completion of goal with ID " \o ToString(id) \o " failed"

\* The errorMessage of the batch operations, one sentence per service.
BatchDescription(op, t) ==
  CASE op = "bulkUpdateWithTransaction" /\ t = "categories" -> "bulk update categories failed"
    [] op = "bulkUpdateWithTransaction" /\ t = "hobbies" -> "bulk update hobbies failed"
    [] op = "bulkUpdateWithTransaction" /\ t = "goals" -> "bulk update goals failed"
    [] op = "bulkUpdateWithTransaction" /\ t = "progress" -> "bulk update progress records failed"
    [] op = "bulkCreateWithTransaction" /\ t = "categories" -> "bulk create categories failed"
    [] op = "bulkCreateWithTransaction" /\ t = "hobbies" -> "bulk create hobbies failed"
    [] op = "bulkAddWithTransaction" /\ t = "progress" -> "bulk add progress records failed"

\* new Error(`${errorMessage}: ${error.message}`)
OperationError(errorMessage, error) == [name |-> "Error", message |-> errorMessage \o ": " \o error.message]

\* executeDbOperation with a catch block that rethrows what it caught.
executeDbOperationRethrows(outcome, errorMessage) == outcome

\* executeDbOperation(operation, errorMessage): outcome is what the operation
\* did, with the exception it ended in, if any.
executeDbOperation(outcome, errorMessage) ==
  IF outcome.error = NoError THEN outcome
  ELSE [outcome EXCEPT !.error = OperationError(errorMessage, outcome.error)]

Outcome(d, ev, error) == [db |-> d, ev |-> ev, error |-> error]

\* table.get / table.toArray
BaseRead(d, t, op, id, fault) ==
  executeDbOperation(Outcome(d, <<>>, fault.error), Description(op, id))

(***************************************************************************)
(* Asynchronous methods as programs of awaited statements                  *)
(*                                                                         *)
(* A method that awaits is a sequence of steps, one per awaited statement  *)
(* (or synchronous statement that publishes).  The steps are run turn by   *)
(* turn: see "Calls in flight" below.  wrap is the errorMessage of the     *)
(* executeDbOperation around the statement ("" when there is none).        *)
(***************************************************************************)
Step(kind, t, id, type, key) == [kind |-> kind, table |-> t, id |-> id, type |-> type, key |-> key, wrap |-> ""]

Wrap(steps, errorMessage) == [k \in DOMAIN steps |-> [steps[k] EXCEPT !.wrap = errorMessage]]

\* The steps of a transaction body at which a failure is injected: the
\* storage deletes.
FailPoints(steps) == {k \in 1..Len(steps) : steps[k].kind \in {"deleteWhere", "delete"}}

(***************************************************************************)
(* SyncService                                                             *)
(***************************************************************************)
AllTables == {"*"}

\* scope is the set of tables of the enclosing Dexie transaction; outside a
\* transaction every call opens its own, so any table is reachable (AllTables).
InScope(scope, t) == scope = AllTables \/ t \in scope

\* pendingTotal, failedTotal and conflictTotal of updateGlobalSyncCounts.
NoSum == [pending |-> 0, failed |-> 0, conflict |-> 0]

\* getSyncStatusCounts(table): the six counts are requested together; the
\* three the totals use.
getSyncStatusCounts(d, t) ==
  [pending |-> WhereStatusCount(d, t, PENDING), failed |-> WhereStatusCount(d, t, FAILED), conflict |-> WhereStatusCount(d, t, CONFLICT)]

\* The totals taken over the categories table alone.
updateGlobalSyncCountsOneTable(sum, d, j) ==
  IF j = 1 THEN getSyncStatusCounts(d, "categories") ELSE sum

\* updateGlobalSyncCounts, pass j of `for (const table of tables)`: the
\* counts of table j, served from the store as it is at that moment, are
\* added to the totals.
updateGlobalSyncCounts(sum, d, j) ==
  LET counts == getSyncStatusCounts(d, TableNames[j])
  IN [pending |-> sum.pending + counts.pending, failed |-> sum.failed + counts.failed, conflict |-> sum.conflict + counts.conflict]

notifySyncStatusChanged(t, id, old, new, scope) ==
  << SyncEntry(ENTITY_SYNC_STATUS_CHANGED, t, id, old, new, scope # AllTables),
     SyncEntry(ENTITY_SYNC_STATUS_CHANGED \o ":" \o t, t, id, old, new, scope # AllTables) >>

\* The write done as a put of a fresh object carrying the sync fields only.
SyncWriteReplacesRow(row, status, md, t) ==
  [SyncableEntity(0, 0) EXCEPT !.syncStatus = status,
              !.lastSyncedAt = IF status = SYNCED THEN t ELSE md.lastSyncedAt,
              !.localUpdatedAt = md.localUpdatedAt,
              !.serverUpdatedAt = md.serverUpdatedAt,
              !.pendingOperation = md.pendingOperation,
              !.conflictData = md.conflictData,
              !.errorMessage = md.errorMessage,
              !.retryCount = md.retryCount,
              !.lastAttemptAt = IF md.lastAttemptAt # NoTime THEN md.lastAttemptAt ELSE t]

\* The object written by db.table(table).update(id, {...}): every listed
\* property is assigned, and a property whose value is undefined is removed.
\* t is Date.now() when the metadata were built, after the get.
SyncWrite(row, status, md, t) ==
  [row EXCEPT !.syncStatus = status,
              !.lastSyncedAt = IF status = SYNCED THEN t ELSE md.lastSyncedAt,
              !.localUpdatedAt = md.localUpdatedAt,
              !.serverUpdatedAt = md.serverUpdatedAt,
              !.pendingOperation = md.pendingOperation,
              !.conflictData = md.conflictData,
              !.errorMessage = md.errorMessage,
              !.retryCount = md.retryCount,
              !.lastAttemptAt = IF md.lastAttemptAt # NoTime THEN md.lastAttemptAt ELSE t]

\* The get of updateEntitySyncStatus without the early return for a missing
\* row: the update touches nothing, the notifications go out.
GetEntityNoReturn(d, t, id) ==
  [found |-> TRUE, oldStatus |-> IF Has(d, t, id) THEN d[t][id].syncStatus ELSE Undef]

\* const entity = await db.table(table).get(id); if (!entity) return;
\* const oldStatus = entity.syncStatus
GetEntity(d, t, id) ==
  [found |-> Has(d, t, id), oldStatus |-> IF Has(d, t, id) THEN d[t][id].syncStatus ELSE Undef]

\* An element of the entities argument of batchUpdateSyncStatus.
Entity(id, status, metadata) == [id |-> id, status |-> status, metadata |-> metadata]

\* A status step: updateEntitySyncStatus for each of its threads, started
\* together.  marked tells that the metadata's localUpdatedAt is the
\* Date.now() markForSync read when it was called.
StatusStep(t, threads, marked) ==
  [threads |-> threads, marked |-> marked] @@ Step("status", t, 0, "", "")

\* updateEntitySyncStatus(table, id, status, metadata): get, update and
\* notifySyncStatusChanged, updateGlobalSyncCounts.
updateEntitySyncStatus(t, id, status, metadata) ==
  StatusStep(t, <<Entity(id, status, metadata)>>, FALSE)

\* markForSync that forgets to pass the operation on.
markForSyncNoOperation(t, id, operation) ==
  StatusStep(t, <<Entity(id, PENDING, EmptyMeta)>>, TRUE)

markForSync(t, id, operation) ==
  StatusStep(t, <<Entity(id, PENDING, [EmptyMeta EXCEPT !.pendingOperation = operation])>>, TRUE)

\* await Promise.all(ids.map((id) => syncService.markForSync(table, id, op))):
\* the calls are started together and advance side by side; with no id
\* there is nothing to await from the store.
MarkAll(t, ids, op) ==
  IF ids = <<>> THEN <<>>
  ELSE <<StatusStep(t, [k \in 1..Len(ids) |-> Entity(ids[k], PENDING, [EmptyMeta EXCEPT !.pendingOperation = op])], TRUE)>>

\* await db.transaction("rw", scope, body): body, when it does not depend on
\* the store, else cascade names the method whose body is built from the store
\* the transaction finds.
TransactionStep(scope, body, cascade, t, id) ==
  [scope |-> scope, body |-> body, cascade |-> cascade] @@ Step("transaction", t, id, "", "")

\* batchUpdateSyncStatus: one transaction over the table, the entities in
\* order, each through updateEntitySyncStatus.
batchUpdateSyncStatus(t, entities) ==
  <<TransactionStep({t}, [k \in 1..Len(entities) |-> updateEntitySyncStatus(t, entities[k].id, entities[k].status, entities[k].metadata)], FALSE, t, 0)>>

\* getSyncEntities(table, status, limit = 50): where("syncStatus").equals(status)
\* .limit(limit).toArray(), the first limit rows of that status in key order.
SyncEntitiesLimit == 50

Limit(xs, n) == IF Len(xs) <= n THEN xs ELSE SubSeq(xs, 1, n)

getSyncEntities(d, t, status, limit) == Limit(ToArray({i \in DOMAIN d[t] : d[t][i].syncStatus = status}), limit)

\* offlineEntities.map((entity) => ({id, status: PENDING, metadata:
\* {localUpdatedAt: Date.now(), pendingOperation: entity.pendingOperation ||
\* UPDATE}})), built when the read has been served.
OfflineBatch(d, t, time) ==
  LET ids == getSyncEntities(d, t, OFFLINE, SyncEntitiesLimit)
  IN [k \in 1..Len(ids) |->
        Entity(ids[k], PENDING,
               [EmptyMeta EXCEPT !.localUpdatedAt = time,
                                 !.pendingOperation = IF d[t][ids[k]].pendingOperation \in {Undef, Null} THEN UPDATE ELSE d[t][ids[k]].pendingOperation])]

\* markOfflineEntitiesForSync: for each table in turn, getSyncEntities and,
\* when it returned rows, batchUpdateSyncStatus on them.
markOfflineEntitiesForSync == [i \in 1..Len(TableNames) |-> Step("readOffline", TableNames[i], 0, "", "")]

\* A server snapshot supplies name, and parent unless it is NotSupplied.
NotSupplied == -1

\* The server-wins write without the spread of the server snapshot.
ServerWriteNoSnapshot(row, serverData, time) ==
  [row EXCEPT !.syncStatus = SYNCED,
              !.lastSyncedAt = time,
              !.serverUpdatedAt = time,
              !.conflictData = Null,
              !.errorMessage = Null]

ServerWrite(row, serverData, time) ==
  [row EXCEPT !.parent = IF serverData.parent = NotSupplied THEN @ ELSE serverData.parent,
              !.name = serverData.name,
              !.syncStatus = SYNCED,
              !.lastSyncedAt = time,
              !.serverUpdatedAt = time,
              !.conflictData = Null,
              !.errorMessage = Null]

\* await db.table(table).update(id, {...serverData, ...}) followed by
\* notifySyncStatusChanged(table, id, CONFLICT, SYNCED)
ServerWriteStep(t, id, serverData) == [serverData |-> serverData] @@ Step("serverWrite", t, id, "", "")

\* await this.updateGlobalSyncCounts() on its own
CountsStep == Step("counts", "", 0, "", "")

\* resolveConflict with the test on the resolution inverted.
resolveConflictInverted(t, id, serverData, resolution) ==
  IF resolution # "local"
  THEN <<markForSync(t, id, UPDATE), CountsStep>>
  ELSE <<ServerWriteStep(t, id, serverData), CountsStep>>

resolveConflict(t, id, serverData, resolution) ==
  IF resolution = "local"
  THEN <<markForSync(t, id, UPDATE), CountsStep>>
  ELSE <<ServerWriteStep(t, id, serverData), CountsStep>>

(***************************************************************************)
(* BaseService (sync-aware), used by CategoryService and HobbyService      *)
(***************************************************************************)
\* {...item, syncStatus: PENDING, localUpdatedAt: Date.now(), pendingOperation}
ItemWithSync(item, op, time) ==
  [SyncableEntity(item.parent, item.name) EXCEPT !.syncStatus = PENDING, !.localUpdatedAt = time, !.pendingOperation = op]

\* table.update(id, {...changes, syncStatus: PENDING, localUpdatedAt:
\* Date.now(), pendingOperation: UPDATE}); changes supplies name, and parent
\* unless it is NotSupplied.
RowWithChanges(row, changes, time) ==
  [row EXCEPT !.parent = IF changes.parent = NotSupplied THEN @ ELSE changes.parent,
              !.name = changes.name,
              !.syncStatus = PENDING,
              !.localUpdatedAt = time,
              !.pendingOperation = UPDATE]

AddStep(t, id, item) == [item |-> item] @@ Step("add", t, id, "", "")

UpdateStep(t, id, changes) == [changes |-> changes] @@ Step("update", t, id, "", "")

\* add: table.add rejects on an existing key; then markForSync(CREATE).
BaseAdd(t, id, item) == Wrap(<<AddStep(t, id, item), markForSync(t, id, CREATE)>>, Description("add", id))

\* update: table.update is a no-op on a missing key; then markForSync(UPDATE).
BaseUpdate(t, id, changes) == Wrap(<<UpdateStep(t, id, changes), markForSync(t, id, UPDATE)>>, Description("update", id))

\* delete: markForSync(DELETE), then table.delete.
BaseDelete(t, id) == Wrap(<<markForSync(t, id, DELETE), Step("delete", t, id, "", "")>>, Description("delete", id))

\* table.bulkAdd(items) outside a transaction: every item whose key is free is
\* stored, and the call rejects (BulkError) when some item was refused; the
\* stored ones stay.
RECURSIVE TableBulkAdd(_, _, _, _)
TableBulkAdd(d, t, items, i) ==
  IF i > Len(items) THEN [db |-> d, failures |-> 0]
  ELSE IF Has(d, t, items[i].id)
  THEN LET r == TableBulkAdd(d, t, items, i + 1) IN [db |-> r.db, failures |-> r.failures + 1]
  ELSE TableBulkAdd(TablePut(d, t, items[i].id, items[i].row), t, items, i + 1)

\* table.bulkPut(items): every item replaces or creates the row of its key.
RECURSIVE TableBulkPut(_, _, _, _)
TableBulkPut(d, t, items, i) ==
  IF i > Len(items) THEN d ELSE TableBulkPut(TablePut(d, t, items[i].id, items[i].row), t, items, i + 1)

RECURSIVE TableBulkDelete(_, _, _, _)
TableBulkDelete(d, t, ids, i) ==
  IF i > Len(ids) THEN d ELSE TableBulkDelete(TableDelete(d, t, ids[i]), t, ids, i + 1)

\* items.map((item) => ({...item, syncStatus, localUpdatedAt, pendingOperation}))
WithSync(items, op, time) ==
  [k \in 1..Len(items) |-> [id |-> items[k].id, row |-> ItemWithSync(items[k], op, time)]]

IdsOf(items) == [k \in 1..Len(items) |-> items[k].id]

BulkStep(kind, t, items) == [items |-> items] @@ Step(kind, t, 0, "", "")

\* bulkAdd: a refused item rejects the call after the other items were
\* stored; markForSync runs only when every item was stored.
bulkAdd(t, items) == Wrap(<<BulkStep("bulkAdd", t, items)>> \o MarkAll(t, IdsOf(items), CREATE), Description("bulkAdd", 0))

bulkPut(t, items) == Wrap(<<BulkStep("bulkPut", t, items)>> \o MarkAll(t, IdsOf(items), UPDATE), Description("bulkPut", 0))

\* The markers are written before table.bulkDelete runs and stay when it
\* rejects.
bulkDelete(t, items) == Wrap(MarkAll(t, IdsOf(items), DELETE) \o <<BulkStep("bulkDelete", t, items)>>, Description("bulkDelete", 0))

(***************************************************************************)
(* CategoryService and HobbyService (sync-aware)                           *)
(***************************************************************************)
ChildTable(t) == CASE t = "categories" -> "hobbies" [] t = "hobbies" -> "goals" [] t = "goals" -> "progress"

AddedEvent(t) == IF t = "categories" THEN CATEGORY_ADDED ELSE HOBBY_ADDED
UpdatedEvent(t) == IF t = "categories" THEN CATEGORY_UPDATED ELSE HOBBY_UPDATED
DeletedEvent(t) == IF t = "categories" THEN CATEGORY_DELETED ELSE HOBBY_DELETED
ChangedEvent(t) == IF t = "categories" THEN CATEGORY_CHANGED ELSE HOBBY_CHANGED

\* dbObserver.notifyChange(type, data): synchronous, run right after the
\* awaited statement before it.
NotifyStep(type, id, key) == Step("notify", "", id, type, key)

\* add / update / delete: super's, then notifyChange.
ServiceAdd(t, id, item) == BaseAdd(t, id, item) \o <<NotifyStep(AddedEvent(t), id, "id")>>

ServiceUpdate(t, id, changes) == BaseUpdate(t, id, changes) \o <<NotifyStep(UpdatedEvent(t), id, "id")>>

ServiceDelete(t, id) == BaseDelete(t, id) \o <<NotifyStep(DeletedEvent(t), id, "id")>>

\* An entry whose payload carries rows next to what the entry has.
WithRows(entry, rows) == [f \in DOMAIN entry \cup {"rows"} |-> IF f = "rows" THEN rows ELSE entry[f]]

\* The body of bulkUpdateWithTransaction: table.update with the sync fields,
\* then markForSync(UPDATE), for each item in turn.
UpdateEach(t, items) ==
  [k \in 1..(2 * Len(items)) |->
     LET item == items[(k + 1) \div 2]
     IN IF k % 2 = 1 THEN UpdateStep(t, item.id, [parent |-> item.parent, name |-> item.name]) ELSE markForSync(t, item.id, UPDATE)]

\* bulkUpdateWithTransaction that notifies once per item.
bulkUpdateWithTransactionPerItem(t, items) ==
  Wrap(<<TransactionStep({t}, UpdateEach(t, items), FALSE, t, 0)>>
         \o [k \in 1..Len(items) |-> NotifyStep(ChangedEvent(t), 1, "count")],
       BatchDescription("bulkUpdateWithTransaction", t))

\* bulkUpdateWithTransaction(items): the loop inside db.transaction("rw",
\* table), then one notifyChange with {bulkUpdate: true, count: items.length},
\* both inside executeDbOperation.
bulkUpdateWithTransaction(t, items) ==
  Wrap(<<TransactionStep({t}, UpdateEach(t, items), FALSE, t, 0),
         NotifyStep(ChangedEvent(t), Len(items), "count")>>,
       BatchDescription("bulkUpdateWithTransaction", t))

\* crypto.randomUUID() for each item: n keys the table does not hold.
FreshIds(d, t, n) ==
  LET free == SelectSeq([k \in 1..(Cardinality(DOMAIN d[t]) + n) |-> k], LAMBDA k : ~Has(d, t, k))
  IN SubSeq(free, 1, n)

\* The body of bulkCreateWithTransaction: table.add of the new row, then
\* markForSync(CREATE), for each item in turn.
CreateEach(t, items, ids) ==
  [k \in 1..(2 * Len(items)) |->
     LET i == (k + 1) \div 2
     IN IF k % 2 = 1 THEN AddStep(t, ids[i], [parent |-> items[i].parent, name |-> items[i].name]) ELSE markForSync(t, ids[i], CREATE)]

\* bulkCreateWithTransaction(items): the loop inside db.transaction("rw",
\* table), then one notifyChange with {bulkAdd: true, <table>: createdRows};
\* the payload has no count property; both inside executeDbOperation.  ids
\* are the keys drawn for the rows.
bulkCreateWithTransaction(t, items, ids) ==
  <<[TransactionStep({t}, CreateEach(t, items, ids), FALSE, t, 0) EXCEPT !.wrap = BatchDescription("bulkCreateWithTransaction", t)],
    [[rows |-> ids] @@ NotifyStep(AddedEvent(t), 0, t) EXCEPT !.wrap = BatchDescription("bulkCreateWithTransaction", t)]>>

\* The body of the batch operations of the Goal and Progress services:
\* table.update(row.id, row) for each row in turn, without sync fields.
PlainUpdateEach(t, items) ==
  [k \in 1..Len(items) |-> [changes |-> [parent |-> items[k].parent, name |-> items[k].name]] @@ Step("plainUpdate", t, items[k].id, "", "")]

\* bulkUpdateWithTransaction(rows) of the Goal and Progress services: the
\* loop inside db.transaction("rw", table); nothing is published.
PlainBulkUpdateWithTransaction(t, items) ==
  Wrap(<<TransactionStep({t}, PlainUpdateEach(t, items), FALSE, t, 0)>>, BatchDescription("bulkUpdateWithTransaction", t))

\* The body of bulkAddWithTransaction: db.progress.add of each new record.
PlainAddEach(t, items, ids) ==
  [k \in 1..Len(items) |-> [item |-> [parent |-> items[k].parent, name |-> items[k].name]] @@ Step("plainAdd", t, ids[k], "", "")]

\* progressService.bulkAddWithTransaction(records): a new key for each
\* record, the adds inside db.transaction("rw", db.progress); nothing is
\* published.
bulkAddWithTransaction(items, ids) ==
  Wrap(<<TransactionStep({"progress"}, PlainAddEach("progress", items, ids), FALSE, "progress", 0)>>,
       BatchDescription("bulkAddWithTransaction", "progress"))

\* The child count taken on the entity's own table.
hasRelatedOwnTable(d, t, id) == Cardinality(WhereParentEquals(d, t, id)) > 0

\* hasRelatedHobbies / hasRelatedGoals / hasRelatedProgress
hasRelated(d, t, id) == Cardinality(WhereParentEquals(d, ChildTable(t), id)) > 0

HasRelatedStep(t, id) == [Step("hasRelated", t, id, "", "") EXCEPT !.wrap = Description("hasRelated", id)]

\* safeDelete without its try / catch.
safeDeleteNoCatch(t, id) ==
  [todo |-> <<HasRelatedStep(t, id)>> \o ServiceDelete(t, id), catches |-> FALSE]

\* safeDelete of the Category and Hobby services: the related-children count,
\* then this.delete, all inside try / catch.
safeDelete(t, id) ==
  [todo |-> <<HasRelatedStep(t, id)>> \o ServiceDelete(t, id), catches |-> TRUE]

MarkSteps(t, ids) == [k \in 1..Len(ids) |-> markForSync(t, ids[k], DELETE)]

\* Body of the cascade below one goal: its progress rows.
ProgressLevel(d, g) ==
  <<Step("read", "progress", g, "", "")>>
    \o MarkSteps("progress", ToArray(WhereParentEquals(d, "progress", g)))
    \o <<Step("deleteWhere", "progress", g, "", ""), NotifyStep(PROGRESS_DELETED, g, "goalId")>>

\* for (const goal of relatedGoals): the progress level of each, in order.
RECURSIVE ProgressLevels(_, _, _)
ProgressLevels(d, relatedGoals, i) ==
  IF i > Len(relatedGoals) THEN <<>> ELSE ProgressLevel(d, relatedGoals[i]) \o ProgressLevels(d, relatedGoals, i + 1)

\* The goal level with the goals removed first and their progress rows after.
GoalLevelGoalsFirst(d, h) ==
  LET relatedGoals == ToArray(WhereParentEquals(d, "goals", h))
  IN <<Step("read", "goals", h, "", "")>>
       \o MarkSteps("goals", relatedGoals)
       \o <<Step("deleteWhere", "goals", h, "", ""), NotifyStep(GOAL_DELETED, h, "hobbyId")>>
       \o ProgressLevels(d, relatedGoals, 1)

\* Body of the cascade below one hobby: its goals and their progress rows.
GoalLevel(d, h) ==
  LET relatedGoals == ToArray(WhereParentEquals(d, "goals", h))
  IN <<Step("read", "goals", h, "", "")>>
       \o ProgressLevels(d, relatedGoals, 1)
       \o MarkSteps("goals", relatedGoals)
       \o <<Step("deleteWhere", "goals", h, "", ""), NotifyStep(GOAL_DELETED, h, "hobbyId")>>

HobbyCascade(d, hobbyId) ==
  GoalLevel(d, hobbyId)
    \o <<markForSync("hobbies", hobbyId, DELETE), Step("delete", "hobbies", hobbyId, "", ""), NotifyStep(HOBBY_DELETED, hobbyId, "id")>>

\* for (const hobby of relatedHobbies): the goal level of each, in order.
RECURSIVE GoalLevels(_, _, _)
GoalLevels(d, relatedHobbies, i) ==
  IF i > Len(relatedHobbies) THEN <<>> ELSE GoalLevel(d, relatedHobbies[i]) \o GoalLevels(d, relatedHobbies, i + 1)

\* The category cascade without the descent into each hobby.
CategoryCascadeShallow(d, categoryId) ==
  LET relatedHobbies == ToArray(WhereParentEquals(d, "hobbies", categoryId))
  IN <<Step("read", "hobbies", categoryId, "", "")>>
       \o MarkSteps("hobbies", relatedHobbies)
       \o <<Step("deleteWhere", "hobbies", categoryId, "", ""), NotifyStep(HOBBY_DELETED, categoryId, "categoryId"),
            markForSync("categories", categoryId, DELETE), Step("delete", "categories", categoryId, "", ""),
            NotifyStep(CATEGORY_DELETED, categoryId, "id")>>

CategoryCascade(d, categoryId) ==
  LET relatedHobbies == ToArray(WhereParentEquals(d, "hobbies", categoryId))
  IN <<Step("read", "hobbies", categoryId, "", "")>>
       \o GoalLevels(d, relatedHobbies, 1)
       \o MarkSteps("hobbies", relatedHobbies)
       \o <<Step("deleteWhere", "hobbies", categoryId, "", ""), NotifyStep(HOBBY_DELETED, categoryId, "categoryId"),
            markForSync("categories", categoryId, DELETE), Step("delete", "categories", categoryId, "", ""),
            NotifyStep(CATEGORY_DELETED, categoryId, "id")>>

\* GoalService.deleteWithRelated: no sync marker, no notification; the body
\* ends with this.completionCache.delete(goalId).
GoalCascade(d, goalId) ==
  <<Step("deleteWhere", "progress", goalId, "", ""), Step("delete", "goals", goalId, "", ""), Step("cacheDelete", "", goalId, "", "")>>

\* The transaction body of deleteWithRelated(id) on the store d it finds.
CascadeSteps(d, t, id) == CASE t = "categories" -> CategoryCascade(d, id) [] t = "hobbies" -> HobbyCascade(d, id) [] t = "goals" -> GoalCascade(d, id)

CascadeScope(t) == CASE t = "categories" -> Tables [] t = "hobbies" -> {"hobbies", "goals", "progress"} [] t = "goals" -> {"goals", "progress"}

deleteWithRelated(t, id) ==
  <<[TransactionStep(CascadeScope(t), <<>>, TRUE, t, id) EXCEPT !.wrap = Description("deleteWithRelated", id)]>>

(***************************************************************************)
(* GoalService and ProgressService (plain BaseService)                     *)
(***************************************************************************)
\* add(item): table.add inside executeDbOperation; an existing key rejects.
PlainAdd(d, t, id, item) ==
  IF Has(d, t, id)
  THEN [db |-> d, ev |-> <<>>, ok |-> FALSE, error |-> executeDbOperation(Outcome(d, <<>>, ConstraintError), Description("add", id)).error]
  ELSE [db |-> TablePut(d, t, id, SyncableEntity(item.parent, item.name)), ev |-> <<>>, ok |-> TRUE, error |-> NoError]

\* A batch as the plain base service stores it: the items as they are.
PlainItems(items) == [k \in 1..Len(items) |-> [id |-> items[k].id, row |-> SyncableEntity(items[k].parent, items[k].name)]]

\* bulkAdd(items) / bulkPut(items) / bulkDelete(ids) of the plain base
\* service: the one table call inside executeDbOperation.  fails: the call
\* rejects on account of the store.
PlainBulk(d, t, op, items, fails) ==
  LET added == TableBulkAdd(d, t, PlainItems(items), 1)
      outcome == CASE fails -> Outcome(d, <<>>, DatabaseClosedError)
                   [] op = "bulkAdd" -> Outcome(added.db, <<>>, IF added.failures > 0 THEN BulkError(t, added.failures, Len(items)) ELSE NoError)
                   [] op = "bulkPut" -> Outcome(TableBulkPut(d, t, PlainItems(items), 1), <<>>, NoError)
                   [] op = "bulkDelete" -> Outcome(TableBulkDelete(d, t, IdsOf(items), 1), <<>>, NoError)
  IN executeDbOperation(outcome, Description(op, 0))

PlainDelete(d, t, id) == [db |-> TableDelete(d, t, id), ev |-> <<>>, ok |-> TRUE]

\* GoalService.safeDelete: hasRelatedProgress, then the plain delete.
GoalSafeDelete(id) ==
  [todo |-> <<HasRelatedStep("goals", id), [Step("delete", "goals", id, "", "") EXCEPT !.wrap = Description("delete", id)]>>, catches |-> TRUE]

(***************************************************************************)
(* Goal completion (GoalService.calculateCompletion and its cache)         *)
(***************************************************************************)
CACHE_TTL == 60000

\* Numbers of the completion arithmetic are fractions n/d in lowest terms
\* with d > 0; d = 0 marks a property that is absent (undefined).
RECURSIVE Gcd(_, _)
Gcd(a, b) == IF b = 0 THEN a ELSE Gcd(b, a % b)

Abs(x) == IF x < 0 THEN -x ELSE x

Ratio(n, d) ==
  LET g == Gcd(Abs(n), Abs(d))
      s == IF d < 0 THEN -1 ELSE 1
  IN [n |-> s * (n \div g), d |-> s * (d \div g)]

NoNumber == [n |-> 0, d |-> 0]
Zero == Ratio(0, 1)
One == Ratio(1, 1)

Plus(x, y) == Ratio(x.n * y.d + y.n * x.d, x.d * y.d)
Divide(x, y) == Ratio(x.n * y.d, x.d * y.n)
Less(x, y) == x.n * y.d < y.n * x.d
MathMin(x, y) == IF Less(y, x) THEN y ELSE x

\* x || fallback: undefined and 0 are falsy.
OrElse(x, fallback) == IF x = NoNumber \/ x = Zero THEN fallback ELSE x

\* A goal row and a progress row: a stored object with the properties the
\* completion reads next to the foreign key.
GoalRow(hobbyId, type, targetValue, timeRequirement) ==
  LET base == SyncableEntity(hobbyId, 0)
      more == [type |-> type, targetValue |-> targetValue, timeRequirement |-> timeRequirement]
  IN [f \in DOMAIN base \cup DOMAIN more |-> IF f \in DOMAIN more THEN more[f] ELSE base[f]]

ProgressRow(goalId, value, duration) ==
  LET base == SyncableEntity(goalId, 0)
      more == [value |-> value, duration |-> duration]
  IN [f \in DOMAIN base \cup DOMAIN more |-> IF f \in DOMAIN more THEN more[f] ELSE base[f]]

\* progressRecords.reduce((sum, record) => sum + record.value, 0)
RECURSIVE SumValue(_, _, _)
SumValue(d, progressRecords, i) ==
  IF i > Len(progressRecords) THEN Zero
  ELSE Plus(d["progress"][progressRecords[i]].value, SumValue(d, progressRecords, i + 1))

\* progressRecords.reduce((sum, record) => sum + (record.duration || 0), 0)
RECURSIVE SumDuration(_, _, _)
SumDuration(d, progressRecords, i) ==
  IF i > Len(progressRecords) THEN Zero
  ELSE Plus(OrElse(d["progress"][progressRecords[i]].duration, Zero), SumDuration(d, progressRecords, i + 1))

\* The switch with the composite case reduced to its count dimension.
CompletionOfCountOnly(d, goal, progressRecords) ==
  CASE goal.type \in {"count", "quantity"} ->
         MathMin(Divide(SumValue(d, progressRecords, 1), goal.targetValue), One)
    [] goal.type = "composite" ->
         MathMin(Divide(Ratio(Len(progressRecords), 1), goal.targetValue), One)
    [] OTHER -> Zero

\* The switch on goal.type.
CompletionOf(d, goal, progressRecords) ==
  CASE goal.type \in {"count", "quantity"} ->
         MathMin(Divide(SumValue(d, progressRecords, 1), goal.targetValue), One)
    [] goal.type = "composite" ->
         LET totalTime == SumDuration(d, progressRecords, 1)
             requiredTime == OrElse(goal.timeRequirement, One)
             countCompletion == MathMin(Divide(Ratio(Len(progressRecords), 1), goal.targetValue), One)
             timeCompletion == MathMin(Divide(totalTime, requiredTime), One)
         IN MathMin(countCompletion, timeCompletion)
    [] OTHER -> Zero

\* completionCache: goalId -> {value, timestamp}
NoCache == [g \in {} |-> [value |-> Zero, timestamp |-> 0]]

CacheSet(cache, goalId, value, time) ==
  [g \in DOMAIN cache \cup {goalId} |-> IF g = goalId THEN [value |-> value, timestamp |-> time] ELSE cache[g]]

CacheDelete(cache, goalId) == [g \in DOMAIN cache \ {goalId} |-> cache[g]]

\* The locals of a calculateCompletion call.  pc: where the call is; now:
\* the Date.now() of its entry; after: the number of progress rows the
\* latest clearCompletionCache before the call had found committed.
NoGoal == GoalRow(0, "", Zero, NoNumber)

\* No call.
NoCall == [pc |-> "none", goalId |-> 0, now |-> 0, goal |-> NoGoal, progressRecords |-> <<>>, value |-> NoNumber, after |-> 0]

\* Entry of calculateCompletion: const now = Date.now(), the cache lookup,
\* and on a miss the call of getById.
beginCalculateCompletion(cache, goalId, time, cleared) ==
  IF goalId \in DOMAIN cache /\ time - cache[goalId].timestamp < CACHE_TTL
  THEN [NoCall EXCEPT !.pc = "done", !.goalId = goalId, !.now = time, !.value = cache[goalId].value, !.after = cleared]
  ELSE [NoCall EXCEPT !.pc = "getById", !.goalId = goalId, !.now = time, !.after = cleared]

\* const goal = await this.getById(goalId); if (!goal) return 0; then the
\* call of db.progress.where("goalId").equals(goalId).toArray().
resumeAfterGetById(call, d) ==
  IF ~Has(d, "goals", call.goalId)
  THEN [call EXCEPT !.pc = "done", !.value = Zero]
  ELSE [call EXCEPT !.pc = "toArray", !.goal = d["goals"][call.goalId]]

\* The store serves db.progress.where("goalId").equals(goalId).toArray():
\* the keys of the records of the goal at that moment (a record of the
\* model never changes once added, so its key stands for its content).
serveToArray(call, d) ==
  [call EXCEPT !.pc = "resume", !.progressRecords = ToArray(WhereParentEquals(d, "progress", call.goalId))]

\* const progressRecords = await ...toArray() resumes: the early return, the
\* switch on goal.type, this.completionCache.set(goalId, {value, timestamp:
\* now}) with the now of the entry, and the return.
resumeAfterToArray(call, d, cache) ==
  IF Len(call.progressRecords) = 0
  THEN [call |-> [call EXCEPT !.pc = "done", !.value = Zero], cache |-> cache]
  ELSE LET result == CompletionOf(d, call.goal, call.progressRecords)
       IN [call |-> [call EXCEPT !.pc = "done", !.value = result],
           cache |-> CacheSet(cache, call.goalId, result, call.now)]

\* calculateCompletion(goalId) called at time with the cache as it is: the
\* call after its entry and, on a miss, the awaited statements inside
\* executeDbOperation.
calculateCompletion(cache, goalId, time) ==
  LET call == beginCalculateCompletion(cache, goalId, time, 0)
  IN [call |-> call,
      todo |-> IF call.pc = "done" THEN <<>>
               ELSE Wrap(<<[call |-> call] @@ Step("getById", "goals", goalId, "", ""),
                           [call |-> NoCall] @@ Step("toArray", "progress", goalId, "", "")>>,
                         Description("calculateCompletion", goalId))]

\* clearCompletionCache that clears the whole cache whatever the argument.
clearCompletionCacheAll(cache, goalId) == NoCache

\* clearCompletionCache that removes nothing when it is given a goal.
clearCompletionCacheNoEntry(cache, goalId) == IF goalId # 0 THEN cache ELSE NoCache

\* clearCompletionCache(goalId?): goalId 0 stands for no argument.
clearCompletionCache(cache, goalId) == IF goalId # 0 THEN CacheDelete(cache, goalId) ELSE NoCache


(***************************************************************************)
(* EventBus                                                                *)
(***************************************************************************)
\* this.events: a Map from event name to the array of its callbacks.
NoEvents == [e \in {} |-> <<>>]

\* The callbacks subscribers register; the faulty one throws when invoked.
Callbacks == {"refresher", "logger", "faulty"}

Throws(callback) == callback = "faulty"

\* subscribe with unshift in place of push.
subscribeFirst(ev, event, callback) ==
  LET created == IF event \in DOMAIN ev THEN ev ELSE [e \in DOMAIN ev \cup {event} |-> IF e = event THEN <<>> ELSE ev[e]]
  IN [created EXCEPT ![event] = <<callback>> \o @]

subscribe(ev, event, callback) ==
  LET created == IF event \in DOMAIN ev THEN ev ELSE [e \in DOMAIN ev \cup {event} |-> IF e = event THEN <<>> ELSE ev[e]]
  IN [created EXCEPT ![event] = Append(@, callback)]

\* callbacks.indexOf(callback): 0 stands for -1.
IndexOf(callbacks, callback) ==
  IF \E i \in 1..Len(callbacks) : callbacks[i] = callback
  THEN CHOOSE i \in 1..Len(callbacks) : callbacks[i] = callback /\ \A j \in 1..(i - 1) : callbacks[j] # callback
  ELSE 0

\* callbacks.splice(index, 1)
Splice(callbacks, index) == [k \in 1..(Len(callbacks) - 1) |-> IF k < index THEN callbacks[k] ELSE callbacks[k + 1]]

\* The closure subscribe returns: this.events.get(event)! is undefined once the
\* event has been cleared, and indexOf on it throws.
unsubscribe(ev, event, callback) ==
  IF event \notin DOMAIN ev
  THEN [events |-> ev, ok |-> FALSE]
  ELSE LET index == IndexOf(ev[event], callback)
       IN [events |-> IF index # 0 THEN [ev EXCEPT ![event] = Splice(@, index)] ELSE ev, ok |-> TRUE]

\* The dispatch loop with the try / catch taken away: the first exception
\* ends the loop and leaves publish.
dispatchNoCatch(callbacks, i) ==
  IF \E k \in i..Len(callbacks) : Throws(callbacks[k])
  THEN [calls |-> SubSeq(callbacks, i, CHOOSE k \in i..Len(callbacks) : Throws(callbacks[k]) /\ \A j \in i..(k - 1) : ~Throws(callbacks[j])), ok |-> FALSE]
  ELSE [calls |-> SubSeq(callbacks, i, Len(callbacks)), ok |-> TRUE]

\* for (const callback of callbacks) try { callback(data) } catch { log }:
\* calls lists the callbacks invoked from position i on, ok tells that no
\* exception left the loop.
RECURSIVE dispatch(_, _)
dispatch(callbacks, i) ==
  IF i > Len(callbacks)
  THEN [calls |-> <<>>, ok |-> TRUE]
  ELSE LET rest == dispatch(callbacks, i + 1)
       IN [calls |-> <<callbacks[i]>> \o rest.calls, ok |-> rest.ok]

publish(ev, event) ==
  IF event \in DOMAIN ev THEN dispatch(ev[event], 1) ELSE [calls |-> <<>>, ok |-> TRUE]

\* A callback that calls the closure its own subscribe returned the first
\* thing when it is invoked.
SelfUnsubscribing(callback) == callback = "once"

\* for (const callback of callbacks) over the array the closures splice: the
\* array iterator reads callbacks[i] of the array as it is at that moment and
\* moves to i + 1, whatever the callback did to the array.
RECURSIVE dispatchLive(_, _)
dispatchLive(callbacks, i) ==
  IF i > Len(callbacks)
  THEN [calls |-> <<>>, callbacks |-> callbacks, ok |-> TRUE]
  ELSE LET callback == callbacks[i]
           left == IF SelfUnsubscribing(callback) THEN Splice(callbacks, IndexOf(callbacks, callback)) ELSE callbacks
           rest == dispatchLive(left, i + 1)
       IN [calls |-> <<callback>> \o rest.calls, callbacks |-> rest.callbacks, ok |-> rest.ok]

\* publish(event, data) with callbacks that may unsubscribe themselves: the
\* callbacks invoked and the subscriptions afterwards.
publishLive(ev, event) ==
  IF event \in DOMAIN ev
  THEN LET r == dispatchLive(ev[event], 1) IN [calls |-> r.calls, events |-> [ev EXCEPT ![event] = r.callbacks], ok |-> r.ok]
  ELSE [calls |-> <<>>, events |-> ev, ok |-> TRUE]

clear(ev, event) == [e \in DOMAIN ev \ {event} |-> ev[e]]

clearAll(ev) == NoEvents

(***************************************************************************)
(* BroadcastService                                                        *)
(***************************************************************************)
\* The object the DataEvent enum compiles to: member name -> event name.
DataEventObject ==
  [CATEGORY_CHANGED |-> "category:changed", CATEGORY_ADDED |-> "category:added", CATEGORY_UPDATED |-> "category:updated", CATEGORY_DELETED |-> "category:deleted",
   HOBBY_CHANGED |-> "hobby:changed", HOBBY_ADDED |-> "hobby:added", HOBBY_UPDATED |-> "hobby:updated", HOBBY_DELETED |-> "hobby:deleted",
   GOAL_CHANGED |-> "goal:changed", GOAL_ADDED |-> "goal:added", GOAL_UPDATED |-> "goal:updated", GOAL_DELETED |-> "goal:deleted",
   PROGRESS_CHANGED |-> "progress:changed", PROGRESS_ADDED |-> "progress:added", PROGRESS_UPDATED |-> "progress:updated", PROGRESS_DELETED |-> "progress:deleted",
   DATABASE_CHANGED |-> "database:changed",
   SYNC_STARTED |-> "sync:started", SYNC_COMPLETED |-> "sync:completed", SYNC_FAILED |-> "sync:failed"]

\* The event names the enum defines.
DataEventNames == {DataEventObject[k] : k \in DOMAIN DataEventObject}

\* Properties every object inherits from Object.prototype.
ObjectPrototypeKeys ==
  {"constructor", "hasOwnProperty", "isPrototypeOf", "propertyIsEnumerable", "toLocaleString", "toString", "valueOf", "__proto__",
   "__defineGetter__", "__defineSetter__", "__lookupGetter__", "__lookupSetter__"}

\* key in DataEvent: own or inherited property of the enum object.
InDataEvent(key) == key \in DOMAIN DataEventObject \cup ObjectPrototypeKeys

\* A value posted on the channel.  kind is what typeof and the null test see;
\* hasType / hasTimestamp tell whether the object has the property at all.
Payload(kind, hasType, type, hasTimestamp, timestamp, source) ==
  [kind |-> kind, hasType |-> hasType, type |-> type, hasTimestamp |-> hasTimestamp, timestamp |-> timestamp, source |-> source]

NoMessage == Payload("none", FALSE, "", FALSE, 0, "")

isDataEventPayload(payload) ==
  /\ payload.kind # "null"
  /\ payload.kind = "object"
  /\ payload.hasType
  /\ payload.hasTimestamp
  /\ InDataEvent(payload.type)

\* broadcast(type, data): the payload handed to channel.postMessage.
broadcast(type, time) == Payload("object", TRUE, type, TRUE, time, "local")

\* The exception postMessage raises on a channel that was closed.

\* The tab whose onmessage is followed.
Receiver == "B"

\* channel.postMessage(payload) by sender: it throws when the sender has
\* closed its channel; the message is queued for the receiver unless the
\* receiver has closed its own.  messages are the ones queued so far.
postMessage(messages, payload, sender, closedTabs) ==
  IF sender \in closedTabs THEN [channel |-> messages, error |-> InvalidStateError]
  ELSE [channel |-> IF Receiver \in closedTabs THEN messages ELSE Append(messages, payload), error |-> NoError]

\* close(): this.channel.close().  A closed channel receives nothing any
\* more, the messages queued for it included; closing again changes nothing.
close(messages, closedTabs, tab) ==
  [channel |-> IF tab = Receiver THEN <<>> ELSE messages, closed |-> closedTabs \cup {tab}]

\* channel.onmessage: for a valid payload, payload.data (not the payload) is
\* published on the local event bus under payload.type; anything else is
\* logged and dropped.
onmessage(ev, payload) ==
  IF isDataEventPayload(payload)
  THEN LET r == publish(ev, payload.type)
       IN [ev |-> <<DataEntry("bus", payload.type, 0, "data", FALSE)>>, calls |-> r.calls, ok |-> r.ok]
  ELSE [ev |-> <<>>, calls |-> <<>>, ok |-> TRUE]

(***************************************************************************)
(* Relation handlers                                                       *)
(***************************************************************************)
\* The events setupRelationHandlers subscribes to, in the order of its
\* subscribe calls.
RelationEvents == <<CATEGORY_DELETED, CATEGORY_UPDATED, HOBBY_DELETED, GOAL_DELETED, PROGRESS_ADDED, PROGRESS_UPDATED, PROGRESS_DELETED, DATABASE_CHANGED>>

\* The callback the k-th call of setupRelationHandlers subscribes to an
\* event: every call creates its own closures.
RelationHandler(k, event) == "relation" \o ToString(k) \o ":" \o event

RECURSIVE SubscribeFrom(_, _, _)
SubscribeFrom(ev, k, i) ==
  IF i > Len(RelationEvents) THEN ev
  ELSE SubscribeFrom(subscribe(ev, RelationEvents[i], RelationHandler(k, RelationEvents[i])), k, i + 1)

setupRelationHandlers(ev, k) == SubscribeFrom(ev, k, 1)

\* unsubscribeFunctions.forEach((unsubscribe) => unsubscribe()): the first
\* closure that throws ends the loop.
RECURSIVE UnsubscribeFrom(_, _, _)
UnsubscribeFrom(ev, k, i) ==
  IF i > Len(RelationEvents) THEN [events |-> ev, ok |-> TRUE]
  ELSE LET r == unsubscribe(ev, RelationEvents[i], RelationHandler(k, RelationEvents[i]))
       IN IF r.ok THEN UnsubscribeFrom(r.events, k, i + 1) ELSE [events |-> r.events, ok |-> FALSE]

\* A cleanup that stops after the handlers of the deletion events of
\* categories, hobbies and goals.
cleanupDeletionHandlersOnly(ev, k) ==
  LET a == unsubscribe(ev, CATEGORY_DELETED, RelationHandler(k, CATEGORY_DELETED))
      b == IF a.ok THEN unsubscribe(a.events, HOBBY_DELETED, RelationHandler(k, HOBBY_DELETED)) ELSE a
      c == IF b.ok THEN unsubscribe(b.events, GOAL_DELETED, RelationHandler(k, GOAL_DELETED)) ELSE b
  IN c

\* The function the k-th call of setupRelationHandlers returns.
cleanup(ev, k) == UnsubscribeFrom(ev, k, 1)

\* The calls of setupRelationHandlers a process makes.
Setups == 1..MaxSetups

\* The store action a callback starts when it is handed entry ("" for none).
\* The progress handlers look for goalId on their argument itself; they are
\* handed the {type, data, timestamp, source} wrapper by notifyChange, and
\* the method they would call, calculateCompletionRate, is not a member of
\* the goal store, so the call throws inside publish and starts nothing.
StoreCall(callback, entry) ==
  CASE \E k \in Setups : callback \in {RelationHandler(k, CATEGORY_DELETED), RelationHandler(k, CATEGORY_UPDATED)} -> "hobbyStore.fetchHobbies"
    [] \E k \in Setups : callback = RelationHandler(k, HOBBY_DELETED) -> "goalStore.fetchGoals"
    [] \E k \in Setups : callback = RelationHandler(k, GOAL_DELETED) -> "progressStore.fetchProgress"
    [] OTHER -> ""

\* The store actions the callbacks invoked for entry started, in order.
StartedBy(callbacks, entry) ==
  SelectSeq([j \in 1..Len(callbacks) |-> StoreCall(callbacks[j], entry)], LAMBDA x : x # "")

\* Everything the entries an operation published set off on the local bus:
\* the callbacks invoked and the store actions they started, in order.
RECURSIVE Concat(_, _, _)
Concat(seqs, lo, hi) ==
  IF lo > hi THEN <<>>
  ELSE IF lo = hi THEN seqs[lo]
  ELSE LET mid == (lo + hi) \div 2 IN Concat(seqs, lo, mid) \o Concat(seqs, mid + 1, hi)

Deliver(ev, entries, i) ==
  LET callbacksOf == [k \in 1..Len(entries) |-> IF entries[k].ch = "bus" THEN publish(ev, entries[k].type).calls ELSE <<>>]
      startedOf == [k \in 1..Len(entries) |-> StartedBy(callbacksOf[k], entries[k])]
  IN [calls |-> Concat(callbacksOf, i, Len(entries)), stores |-> Concat(startedOf, i, Len(entries))]

\* ProgressService (plain BaseService): add, update and delete publish
\* nothing.
ProgressAdd(d, id, row) ==
  IF Has(d, "progress", id)
  THEN [db |-> d, ev |-> <<>>, ok |-> FALSE, error |-> executeDbOperation(Outcome(d, <<>>, ConstraintError), Description("add", id)).error]
  ELSE [db |-> TablePut(d, "progress", id, row), ev |-> <<>>, ok |-> TRUE, error |-> NoError]

ProgressUpdate(d, id, value) ==
  [db |-> IF Has(d, "progress", id) THEN TablePut(d, "progress", id, [d["progress"][id] EXCEPT !.value = value]) ELSE d, ev |-> <<>>, ok |-> TRUE]


(***************************************************************************)
(* Calls in flight                                                         *)
(*                                                                         *)
(* A call of an asynchronous method advances turn by turn.  A turn is one  *)
(* request served by the store (every store call outside a transaction is  *)
(* a transaction of its own) followed by the code of the method up to its  *)
(* next await, which runs without interruption: it publishes, and it       *)
(* issues the next request.  Between two turns of a call the clock may     *)
(* advance and other calls may take turns.                                 *)
(***************************************************************************)
\* lastOp describes the call whose result the caller is looking at; bus is
\* what that call published.  Return hands control back to the caller.
\* arg is the status / operation / resolution argument, val the domain value
\* passed in, failAt the injected failure (0: none), pre the store as the
\* call found it, at the clock when it was made.
\* For a call on the event bus or the broadcast service: event and callback
\* are its arguments, msg the message handled, subs the subscriptions as the
\* call found them.  result is the number a call returned, cache the
\* completion cache as the call found it, batch the ids of a bulk call.
Idle == [name |-> "idle", table |-> "", id |-> 0, arg |-> "", val |-> 0, ok |-> TRUE, failAt |-> 0, confirmAction |-> Undef, pre |-> EmptyDb, at |-> NoTime,
         event |-> "", callback |-> "", msg |-> NoMessage, subs |-> NoEvents,
         result |-> NoNumber, cache |-> NoCache, batch |-> <<>>,
         fault |-> NoFault, error |-> NoError, rejected |-> FALSE, message |-> ""]

Op(name, t, id, arg, ok, failAt, confirmAction) == [name |-> name, table |-> t, id |-> id, arg |-> arg, val |-> 0, ok |-> ok, failAt |-> failAt, confirmAction |-> confirmAction, pre |-> db, at |-> now,
                                                   event |-> "", callback |-> "", msg |-> NoMessage, subs |-> events,
                                                   result |-> NoNumber, cache |-> completionCache, batch |-> <<>>,
                                                   fault |-> NoFault, error |-> NoError, rejected |-> FALSE, message |-> ""]

OpVal(name, t, id, arg, v) == [Op(name, t, id, arg, TRUE, 0, Undef) EXCEPT !.val = v]

BusOp(name, event, callback, msg, ok) == [Op(name, "", 0, "", ok, 0, Undef) EXCEPT !.event = event, !.callback = callback, !.msg = msg]

\* The call op under fault: store call fault.at of it rejects with
\* fault.error (inside a transaction: store call fault.at of the body).
Faulted(op, fault) == [op EXCEPT !.fault = fault, !.failAt = fault.at]

\* A call in flight.  todo: the statements still to run, the head being the
\* one awaited; done: how many have completed (inside a transaction: of its
\* body); stage: the number of turns the head has taken; clock: the clock
\* when the pending request was issued.  The locals of the status step in
\* progress, per thread: old (oldStatus), at (Date.now() after the get, NoTime
\* for a thread that returned), sum (the totals so far); markedAt is the
\* Date.now() of markForSync.  ev, calls, stores: what the call has published
\* so far, the callbacks that invoked and the store actions they started.
\* scope, view, wrap: the open transaction, the rows as it sees them, and the
\* errorMessage around it.  settled: the promise of the call has rejected
\* while calls it started are still running.
NewCall(op, todo, catches) ==
  [op |-> op, todo |-> todo, catches |-> catches, done |-> 0, stage |-> 0, clock |-> op.at, settled |-> FALSE,
   old |-> <<>>, at |-> <<>>, sum |-> <<>>, markedAt |-> NoTime,
   ev |-> <<>>, calls |-> <<>>, stores |-> <<>>,
   scope |-> AllTables, view |-> EmptyDb, wrap |-> ""]

\* A caller with no call in flight.
Free == NewCall(Idle, <<>>, FALSE)

\* A call c together with the store and the completion cache it acts on.
Machine(c, d, cache) == [c |-> c, db |-> d, cache |-> cache]

\* The rows a request of the call is served from.
Store(m) == IF m.c.scope = AllTables THEN m.db ELSE m.c.view

Write(m, d) == IF m.c.scope = AllTables THEN [m EXCEPT !.db = d] ELSE [m EXCEPT !.c.view = d]

\* eventBus.publish / channel.postMessage of entries: the subscribers are
\* invoked at once.
Emit(m, entries, ev) ==
  LET r == Deliver(ev, entries, 1)
  IN [m EXCEPT !.c.ev = @ \o entries, !.c.calls = @ \o r.calls, !.c.stores = @ \o r.stores]

\* The awaited statement has completed.
Pop(m) == [m EXCEPT !.c.todo = Tail(@), !.c.done = @ + 1, !.c.stage = 0, !.c.old = <<>>, !.c.at = <<>>, !.c.sum = <<>>, !.c.markedAt = NoTime]

\* The method returns (or throws) from where it is.
Leave(m) == [m EXCEPT !.c.todo = <<>>, !.c.stage = 0, !.c.old = <<>>, !.c.at = <<>>, !.c.sum = <<>>, !.c.markedAt = NoTime]

\* A transaction that keeps the writes of a body that failed.
TransactionKeepsWrites(d, view, scope, committed) ==
  [t \in Tables |-> IF t \in scope THEN view[t] ELSE d[t]]

\* db.transaction("rw", scope, body) at its end: committed, the rows of its
\* tables are as the body left them; aborted (a statement of the body
\* rejected), Dexie undoes every write of the body.
Transaction(d, view, scope, committed) ==
  IF committed THEN [t \in Tables |-> IF t \in scope THEN view[t] ELSE d[t]] ELSE d

\* A store call (or a synchronous statement) throws error.  An open
\* transaction is aborted; an executeDbOperation around the statement wraps
\* the error; the try / catch of safeDelete turns it into a result.
Reject(m, error, errorMessage) ==
  LET description == IF m.c.scope # AllTables THEN m.c.wrap ELSE errorMessage
      thrown == IF description = "" THEN error ELSE executeDbOperation(Outcome(m.db, m.c.ev, error), description).error
      undone == IF m.c.scope # AllTables
                THEN [m EXCEPT !.db = Transaction(m.db, m.c.view, m.c.scope, FALSE), !.c.scope = AllTables, !.c.view = EmptyDb, !.c.wrap = ""]
                ELSE m
  IN IF m.c.catches
     THEN [Leave(undone) EXCEPT !.c.op.ok = FALSE, !.c.op.message = "delete failed: " \o thrown.message]
     ELSE [Leave(undone) EXCEPT !.c.op.ok = FALSE, !.c.op.rejected = TRUE, !.c.op.error = thrown]

\* The get of the first call of a Promise.all of several rejects: Promise.all
\* rejects at once and the method with it; the other calls it started are
\* not stopped and run to their end.
Detach(m, st, error) ==
  LET rejected == Reject(m, error, st.wrap)
  IN [rejected EXCEPT !.c.todo = <<st>>, !.c.settled = TRUE, !.c.stage = 1, !.c.markedAt = m.c.clock,
                      !.c.old = <<Undef>>, !.c.at = <<NoTime>>, !.c.sum = <<NoSum>>]

\* The turns of a status step with n threads: n gets, n updates, then the
\* counts of each of the four tables by each thread.  Turn s belongs to
\* thread StatusThread and round StatusRound (1: get, 2: update, 3..6: the
\* count of table 1..4).
StatusThread(st, s) == ((s - 1) % Len(st.threads)) + 1

StatusRound(st, s) == ((s - 1) \div Len(st.threads)) + 1

\* The turns the step has left after stage: those of threads that did not
\* return at the get, up to the first table that is not in the scope of the
\* open transaction (its count rejects, and updateGlobalSyncCounts catches
\* and logs that).
TurnsLeft(m, st) ==
  {s \in (m.c.stage + 1)..(6 * Len(st.threads)) :
     \/ StatusRound(st, s) = 1
     \/ /\ StatusThread(st, s) \in DOMAIN m.c.at => m.c.at[StatusThread(st, s)] # NoTime
        /\ \A r \in 3..StatusRound(st, s) : InScope(m.c.scope, TableNames[r - 2])}

Advance(m, st) ==
  LET left == TurnsLeft(m, st)
  IN IF left = {} THEN Pop(m) ELSE [m EXCEPT !.c.stage = (CHOOSE s \in left : \A x \in left : s <= x) - 1]

\* One turn of updateEntitySyncStatus / markForSync.
ServeStatus(m, st, time, ev) ==
  LET s == m.c.stage + 1
      k == StatusThread(st, s)
      round == StatusRound(st, s)
      entity == st.threads[k]
      d == Store(m)
  IN CASE round = 1 ->
            LET got == GetEntity(d, st.table, entity.id)
            IN Advance([m EXCEPT !.c.stage = s,
                                 !.c.markedAt = IF s = 1 THEN m.c.clock ELSE @,
                                 !.c.old = Append(@, got.oldStatus),
                                 !.c.at = Append(@, IF got.found THEN time ELSE NoTime),
                                 !.c.sum = Append(@, NoSum)], st)
       [] round = 2 ->
            LET metadata == IF st.marked THEN [entity.metadata EXCEPT !.localUpdatedAt = m.c.markedAt] ELSE entity.metadata
                written == Write(m, IF Has(d, st.table, entity.id)
                                    THEN TablePut(d, st.table, entity.id, SyncWrite(d[st.table][entity.id], entity.status, metadata, m.c.at[k]))
                                    ELSE d)
                told == Emit(written, notifySyncStatusChanged(st.table, entity.id, m.c.old[k], entity.status, m.c.scope), ev)
            IN Advance([told EXCEPT !.c.stage = s], st)
       [] OTHER ->
            LET sum == updateGlobalSyncCounts(m.c.sum[k], d, round - 2)
                counted == [m EXCEPT !.c.stage = s, !.c.sum[k] = sum]
            IN Advance(IF round - 2 = Len(TableNames)
                       THEN Emit(counted, <<GlobalEntry(sum.pending, sum.failed, sum.conflict, m.c.scope # AllTables)>>, ev)
                       ELSE counted, st)

\* One turn of updateGlobalSyncCounts called on its own.
ServeCounts(m, ev) ==
  LET j == m.c.stage + 1
      sum == updateGlobalSyncCounts(IF j = 1 THEN NoSum ELSE m.c.sum[1], Store(m), j)
      counted == [m EXCEPT !.c.stage = j, !.c.sum = <<sum>>]
  IN IF j = Len(TableNames)
     THEN Pop(Emit(counted, <<GlobalEntry(sum.pending, sum.failed, sum.conflict, m.c.scope # AllTables)>>, ev))
     ELSE counted

\* The store serves the request of the awaited statement st.
Serve(m, st, time, ev) ==
  LET d == Store(m)
      t == st.table
  IN CASE st.kind = "status" -> ServeStatus(m, st, time, ev)
       [] st.kind = "counts" -> ServeCounts(m, ev)
       [] st.kind = "add" ->
            IF Has(d, t, st.id)
            THEN Reject(m, ConstraintError, st.wrap)
            ELSE Pop(Write(m, TablePut(d, t, st.id, ItemWithSync(st.item, CREATE, m.c.op.at))))
       [] st.kind = "update" ->
            Pop(Write(m, IF Has(d, t, st.id) THEN TablePut(d, t, st.id, RowWithChanges(d[t][st.id], st.changes, m.c.clock)) ELSE d))
       [] st.kind = "plainAdd" ->
            IF Has(d, t, st.id)
            THEN Reject(m, ConstraintError, st.wrap)
            ELSE Pop(Write(m, TablePut(d, t, st.id, SyncableEntity(st.item.parent, st.item.name))))
       [] st.kind = "plainUpdate" ->
            Pop(Write(m, IF Has(d, t, st.id)
                         THEN TablePut(d, t, st.id, [d[t][st.id] EXCEPT !.parent = st.changes.parent, !.name = st.changes.name])
                         ELSE d))
       [] st.kind = "serverWrite" ->
            Pop(Emit(Write(m, IF Has(d, t, st.id) THEN TablePut(d, t, st.id, ServerWrite(d[t][st.id], st.serverData, m.c.clock)) ELSE d),
                     notifySyncStatusChanged(t, st.id, CONFLICT, SYNCED, m.c.scope), ev))
       [] st.kind = "hasRelated" ->
            IF hasRelated(d, t, st.id)
            THEN [Leave(m) EXCEPT !.c.op.ok = FALSE, !.c.op.confirmAction = "deleteWithRelated", !.c.op.message = "confirm"]
            ELSE Pop(m)
       [] st.kind = "read" -> Pop(m)
       [] st.kind = "getById" ->
            LET call == resumeAfterGetById(st.call, d)
                read == [m EXCEPT !.c.stores = Append(@, "goals.get")]
            IN IF call.pc = "done"
               THEN [Leave(read) EXCEPT !.c.op.result = call.value]
               ELSE [Pop(read) EXCEPT !.c.todo[1].call = call]
       [] st.kind = "toArray" ->
            LET r == resumeAfterToArray(serveToArray(st.call, d), d, m.cache)
            IN [Pop([m EXCEPT !.c.stores = Append(@, "progress.where")]) EXCEPT !.c.op.result = r.call.value, !.cache = r.cache]
       [] st.kind = "delete" -> Pop(Write(m, TableDelete(d, t, st.id)))
       [] st.kind = "deleteWhere" -> Pop(Write(m, WhereParentDelete(d, t, st.id)))
       [] st.kind = "bulkAdd" ->
            LET added == TableBulkAdd(d, t, WithSync(st.items, CREATE, m.c.clock), 1)
            IN IF added.failures > 0
               THEN Reject(Write(m, added.db), BulkError(t, added.failures, Len(st.items)), st.wrap)
               ELSE Pop(Write(m, added.db))
       [] st.kind = "bulkPut" -> Pop(Write(m, TableBulkPut(d, t, WithSync(st.items, UPDATE, m.c.clock), 1)))
       [] st.kind = "bulkDelete" -> Pop(Write(m, TableBulkDelete(d, t, IdsOf(st.items), 1)))
       [] st.kind = "readOffline" ->
            LET entities == OfflineBatch(d, t, time)
            IN IF Len(entities) > 0 THEN [Pop(m) EXCEPT !.c.todo = batchUpdateSyncStatus(t, entities) \o @] ELSE Pop(m)
       [] st.kind = "transaction" ->
            [m EXCEPT !.c.todo = (IF st.cascade THEN CascadeSteps(m.db, t, st.id) ELSE st.body) \o <<Step("commit", "", 0, "", "")>> \o Tail(@),
                      !.c.done = 0, !.c.scope = st.scope, !.c.view = m.db, !.c.wrap = st.wrap]
       [] st.kind = "commit" ->
            [Pop(m) EXCEPT !.db = Transaction(m.db, m.c.view, m.c.scope, TRUE), !.c.scope = AllTables, !.c.view = EmptyDb, !.c.wrap = ""]

\* The entries of a notifyChange statement.
Notification(st, inTxn) ==
  LET n == notifyChange(st.type, st.id, st.key, inTxn)
  IN IF "rows" \in DOMAIN st THEN [k \in 1..Len(n) |-> WithRows(n[k], st.rows)] ELSE n

\* The code that follows the served request, up to the next await: the
\* synchronous statements at the head of todo.  A notifyChange under fault
\* has published on the local bus when its broadcast throws.
RECURSIVE Settle(_, _)
Settle(m, ev) ==
  IF m.c.todo = <<>> THEN m
  ELSE LET st == Head(m.c.todo)
       IN CASE st.kind = "notify" ->
                 IF m.c.op.fault.at = m.c.done + 1
                 THEN Reject(Emit(m, <<Notification(st, m.c.scope # AllTables)[1]>>, ev), m.c.op.fault.error, st.wrap)
                 ELSE Settle(Pop(Emit(m, Notification(st, m.c.scope # AllTables), ev)), ev)
            [] st.kind = "cacheDelete" -> Settle(Pop([m EXCEPT !.cache = CacheDelete(@, st.id)]), ev)
            [] OTHER -> m

\* The store call of the awaited statement st rejects with error.
\* updateGlobalSyncCounts catches and logs, and its caller goes on; getById
\* wraps the error in its own executeDbOperation first.
Fail(m, st, error, ev) ==
  CASE st.kind = "counts" -> Settle(Pop(m), ev)
    [] st.kind = "getById" -> Reject(m, OperationError(Description("getById", st.id), error), st.wrap)
    [] st.kind = "status" /\ Len(st.threads) > 1 /\ m.c.scope = AllTables -> Advance(Detach(m, st, error), st)
    [] OTHER -> Reject(m, error, st.wrap)

\* One turn of the call c on the store d at the clock time, with the
\* subscriptions ev: the request of the awaited statement is served (or is
\* the store call that rejects), and the call runs on to its next request.
Continue(c, d, cache, time, ev) ==
  LET m == Machine(c, d, cache)
      st == Head(c.todo)
      served == IF c.op.fault.at = c.done + 1 /\ c.stage = 0 /\ st.kind \notin {"transaction", "commit"}
                THEN Fail(m, st, c.op.fault.error, ev)
                ELSE Settle(Serve(m, st, time, ev), ev)
  IN [served EXCEPT !.c.clock = time]

\* The tables the pending request of c works on, and whether it writes.
Footprint(c) ==
  LET st == Head(c.todo)
  IN IF c.scope # AllTables THEN [tables |-> c.scope, writes |-> TRUE]
     ELSE CASE st.kind = "transaction" -> [tables |-> st.scope, writes |-> TRUE]
            [] st.kind = "status" ->
                 LET round == StatusRound(st, c.stage + 1)
                 IN [tables |-> {IF round <= 2 THEN st.table ELSE TableNames[round - 2]}, writes |-> round = 2]
            [] st.kind = "counts" -> [tables |-> {TableNames[c.stage + 1]}, writes |-> FALSE]
            [] st.kind = "hasRelated" -> [tables |-> {ChildTable(st.table)}, writes |-> FALSE]
            [] st.kind \in {"read", "readOffline", "getById", "toArray"} -> [tables |-> {st.table}, writes |-> FALSE]
            [] OTHER -> [tables |-> {st.table}, writes |-> TRUE]

\* inflight lists the calls in flight in the order of their pending
\* requests, the free callers after them.  The store serves requests on
\* overlapping tables in the order they were made when one of them writes.
Runnable(calls_, i) ==
  \A j \in 1..(i - 1) :
    \/ calls_[j] = Free
    \/ Footprint(calls_[j]).tables \cap Footprint(calls_[i]).tables = {}
    \/ ~Footprint(calls_[j]).writes /\ ~Footprint(calls_[i]).writes

\* The queue after call i took a turn and became c: a call that ended frees
\* its caller; one with an open transaction keeps its place; any other has
\* made a new request, behind the ones pending.
Requeue(calls_, i, c) ==
  IF c.todo # <<>> /\ c.scope # AllTables
  THEN [calls_ EXCEPT ![i] = c]
  ELSE LET others == SelectSeq([k \in 1..(Len(calls_) - 1) |-> IF k < i THEN calls_[k] ELSE calls_[k + 1]], LAMBDA x : x # Free)
           busy == IF c.todo = <<>> THEN others ELSE Append(others, c)
       IN [k \in 1..Len(calls_) |-> IF k <= Len(busy) THEN busy[k] ELSE Free]

(***************************************************************************)
(* State machine                                                           *)
(***************************************************************************)
Init ==
  /\ db = EmptyDb
  /\ now = 1
  /\ bus = <<>>
  /\ lastOp = Idle
  /\ events = NoEvents
  /\ channel = <<>>
  /\ closed = {}
  /\ calls = <<>>
  /\ completionCache = NoCache
  /\ storeCalls = <<>>
  /\ relations = <<>>
  /\ inflight = <<Free>>

Return ==
  /\ lastOp # Idle
  /\ lastOp' = Idle
  /\ bus' = <<>>
  /\ calls' = <<>>
  /\ storeCalls' = <<>>
  /\ UNCHANGED <<db, now, events, channel, completionCache, relations, inflight, closed>>

Tick ==
  /\ lastOp = Idle
  /\ now < MaxTime
  /\ now' = now + 1
  /\ UNCHANGED <<db, bus, lastOp, events, channel, calls, completionCache, storeCalls, relations, inflight, closed>>

\* A caller is free to make a call: it has taken note of the last result and
\* has no call in flight.
Ready == lastOp = Idle /\ \E i \in DOMAIN inflight : inflight[i] = Free

\* A free caller makes the call op: the method runs to its first await, whose
\* request joins the pending ones.
Start(op, todo, catches) ==
  /\ Ready
  /\ inflight' = Requeue(inflight, CHOOSE i \in DOMAIN inflight : inflight[i] = Free, NewCall(op, todo, catches))
  /\ UNCHANGED <<db, now, bus, lastOp, events, channel, calls, completionCache, storeCalls, relations, closed>>

\* What xs has after its first n elements.
After(xs, n) == SubSeq(xs, n + 1, Len(xs))

\* The store serves the pending request of a call, and the call runs to its
\* next await or to its end.  The caller has the result when the promise of
\* the call settles: at the end of the call, or when a Promise.all inside it
\* rejects; what the calls it left running publish after that is published
\* all the same.
Turn ==
  \E i \in DOMAIN inflight :
    /\ inflight[i] # Free
    /\ Runnable(inflight, i)
    /\ \E m \in {Continue(inflight[i], db, completionCache, now, events)} :
         \E settles \in {~inflight[i].settled /\ (m.c.todo = <<>> \/ m.c.settled)} :
           /\ settles => lastOp = Idle
           /\ db' = m.db
           /\ completionCache' = m.cache
           /\ inflight' = Requeue(inflight, i, m.c)
           /\ lastOp' = IF settles THEN m.c.op ELSE lastOp
           /\ bus' = IF settles THEN m.c.ev ELSE IF inflight[i].settled THEN bus \o After(m.c.ev, Len(inflight[i].ev)) ELSE bus
           /\ calls' = IF settles THEN m.c.calls ELSE IF inflight[i].settled THEN calls \o After(m.c.calls, Len(inflight[i].calls)) ELSE calls
           /\ storeCalls' = IF settles THEN m.c.stores ELSE IF inflight[i].settled THEN storeCalls \o After(m.c.stores, Len(inflight[i].stores)) ELSE storeCalls
    /\ UNCHANGED <<now, events, channel, relations, closed>>

\* The foreign key a caller gives a new row: the row of the same rank in the
\* parent table or the one before it (present or not).
ParentChoices(t, id) == IF t = "categories" THEN {0} ELSE {p \in Ids : id - 1 <= p /\ p <= id}

\* categoryService.add / hobbyService.add
Add ==
  \E t \in {"categories", "hobbies"}, id \in Ids :
    \E parent \in ParentChoices(t, id) :
      /\ RowCount(db) < MaxRows
      /\ Start(Op("add", t, id, "", TRUE, 0, Undef), ServiceAdd(t, id, [parent |-> parent, name |-> 1]), FALSE)

\* goalService.add / progressService.add: one store call
AddPlain ==
  \E t \in {"goals", "progress"}, id \in Ids :
    \E parent \in ParentChoices(t, id) :
      /\ Ready
      /\ RowCount(db) < MaxRows
      /\ LET r == PlainAdd(db, t, id, [parent |-> parent, name |-> 1])
         IN /\ db' = r.db
            /\ bus' = r.ev
            /\ lastOp' = [Op("add", t, id, "", r.ok, 0, Undef) EXCEPT !.rejected = ~r.ok, !.error = r.error]
      /\ UNCHANGED <<now, events, channel, calls, completionCache, storeCalls, relations, inflight, closed>>

\* hobbyService.update(id, {name}): a rename
Update ==
  \E id \in Ids :
    Start(OpVal("update", "hobbies", id, "", MaxVal), ServiceUpdate("hobbies", id, [parent |-> NotSupplied, name |-> MaxVal]), FALSE)

\* categoryService.delete / hobbyService.delete
Delete ==
  \E t \in {"categories", "hobbies"}, id \in Ids :
    Start(Op("delete", t, id, "", TRUE, 0, Undef), ServiceDelete(t, id), FALSE)

SafeDelete ==
  \E t \in {"categories", "hobbies", "goals"}, id \in Ids :
    LET method == IF t = "goals" THEN GoalSafeDelete(id) ELSE safeDelete(t, id)
    IN Start(Op("safeDelete", t, id, "", TRUE, 0, Undef), method.todo, method.catches)

\* deleteWithRelated of the Category, Hobby and Goal services; failAt is the
\* statement of the transaction body whose store call rejects (0: none).
DeleteWithRelated ==
  \E t \in {"categories", "hobbies", "goals"}, id \in Ids :
    \E failAt \in {0} \cup FailPoints(CascadeSteps(db, t, id)) :
      Start(Faulted(Op("deleteWithRelated", t, id, "", TRUE, 0, Undef), [at |-> failAt, error |-> IF failAt = 0 THEN NoError ELSE DatabaseClosedError]),
            deleteWithRelated(t, id), FALSE)

Next == Add \/ AddPlain \/ Update \/ Delete \/ SafeDelete \/ DeleteWithRelated \/ Turn \/ Return

Spec == Init /\ [][Next]_vars

(***************************************************************************)
(* The synchronization tracker on the rows of one table                    *)
(***************************************************************************)
SyncTable == "categories"

\* The row the tracker is followed on.
SyncIds == {1}

\* Metadata patches a reconciliation caller passes to updateEntitySyncStatus.
Patches ==
  { EmptyMeta,
    [EmptyMeta EXCEPT !.errorMessage = "err", !.retryCount = 1],
    [EmptyMeta EXCEPT !.conflictData = "remote"],
    [EmptyMeta EXCEPT !.pendingOperation = NONE] }

PatchName(md) ==
  CASE md.errorMessage # Undef -> "error"
    [] md.conflictData # Undef -> "conflict"
    [] md.pendingOperation # Undef -> "none"
    [] OTHER -> "empty"

SyncAdd ==
  \E id \in SyncIds :
    Start(Op("add", SyncTable, id, "", TRUE, 0, Undef), ServiceAdd(SyncTable, id, [parent |-> 0, name |-> 1]), FALSE)

SyncUpdate ==
  \E id \in SyncIds, v \in Vals :
    Start(OpVal("update", SyncTable, id, "", v), ServiceUpdate(SyncTable, id, [parent |-> NotSupplied, name |-> v]), FALSE)

SyncDelete ==
  \E id \in SyncIds :
    Start(Op("delete", SyncTable, id, "", TRUE, 0, Undef), ServiceDelete(SyncTable, id), FALSE)

UpdateEntitySyncStatus ==
  \E id \in SyncIds, status \in SyncStatus, md \in Patches :
    Start(Op("updateEntitySyncStatus", SyncTable, id, status, TRUE, 0, PatchName(md)), <<updateEntitySyncStatus(SyncTable, id, status, md)>>, FALSE)

BatchUpdateSyncStatus ==
  \E S \in SUBSET SyncIds, status \in SyncStatus, md \in Patches :
    /\ S # {}
    /\ LET ids == ToArray(S)
       IN Start(Op("batchUpdateSyncStatus", SyncTable, 0, status, TRUE, 0, PatchName(md)),
                batchUpdateSyncStatus(SyncTable, [k \in 1..Len(ids) |-> Entity(ids[k], status, md)]), FALSE)

MarkForSync ==
  \E id \in SyncIds, operation \in {CREATE, UPDATE, DELETE} :
    Start(Op("markForSync", SyncTable, id, operation, TRUE, 0, Undef), <<markForSync(SyncTable, id, operation)>>, FALSE)

ResolveConflict ==
  \E id \in SyncIds, resolution \in {"local", "server"}, v \in Vals :
    Start(OpVal("resolveConflict", SyncTable, id, resolution, v), resolveConflict(SyncTable, id, [parent |-> NotSupplied, name |-> v], resolution), FALSE)

MarkOfflineEntitiesForSync ==
  Start(Op("markOfflineEntitiesForSync", "", 0, "", TRUE, 0, Undef), markOfflineEntitiesForSync, FALSE)

NextSync == SyncAdd \/ SyncUpdate \/ SyncDelete \/ UpdateEntitySyncStatus \/ BatchUpdateSyncStatus \/ MarkForSync \/ ResolveConflict \/ MarkOfflineEntitiesForSync \/ Turn \/ Tick \/ Return

SpecSync == Init /\ [][NextSync]_vars

(***************************************************************************)
(* The tracker on stores that hold rows in several statuses and tables     *)
(***************************************************************************)
\* A row as add(item) followed by updateEntitySyncStatus(status, patch) at the
\* first instant leaves it.
StatusRow(status, md) == SyncWrite(SyncableEntity(0, 1), status, md, 1)

\* The statuses a counted row is in; a count does not depend on the order of
\* the rows, so the rows after the first are laid out in this order.
CountStatuses == <<SYNCED, PENDING, FAILED, CONFLICT>>

\* One more row in another table, or none.
ExtraRows == {<<"categories", SYNCED>>, <<"hobbies", PENDING>>, <<"goals", FAILED>>, <<"progress", CONFLICT>>}

InitCounts ==
  /\ \E n \in 1..MaxCountRows :
       \E statuses \in [1..n -> DOMAIN CountStatuses], x \in ExtraRows :
         /\ \A i \in 2..(n - 1) : statuses[i] <= statuses[i + 1]
         /\ db = [t \in Tables |->
                   IF t = "categories" THEN [i \in 1..n |-> StatusRow(CountStatuses[statuses[i]], EmptyMeta)]
                   ELSE IF t = x[1] THEN <<StatusRow(x[2], EmptyMeta)>>
                   ELSE <<>>]
  /\ now = 1
  /\ bus = <<>>
  /\ lastOp = Idle
  /\ events = NoEvents
  /\ channel = <<>>
  /\ closed = {}
  /\ calls = <<>>
  /\ completionCache = NoCache
  /\ storeCalls = <<>>
  /\ relations = <<>>
  /\ inflight = <<Free>>

\* resolveConflict when its first store call, or the first count of the
\* updateGlobalSyncCounts it ends with, rejects.
ResolveConflictOrFail ==
  \E id \in SyncIds, resolution \in {"local", "server"}, fault \in Faults(2) \ {NoFault} :
    Start(Faulted(OpVal("resolveConflict", SyncTable, id, resolution, MaxVal), fault),
          resolveConflict(SyncTable, id, [parent |-> NotSupplied, name |-> MaxVal], resolution), FALSE)

\* One tracker call on the first category of such a store.
NextCounts == UpdateEntitySyncStatus \/ MarkForSync \/ ResolveConflict \/ ResolveConflictOrFail \/ Turn

SpecCounts == InitCounts /\ [][NextCounts]_vars

(***************************************************************************)
(* Re-queueing offline rows                                                *)
(***************************************************************************)
\* n rows of one table went offline with the same pending operation (or with
\* none); the table may hold a synced row after them.
InitOffline ==
  /\ \E t \in Tables, n \in 0..MaxOffline, operation \in {Undef, CREATE, DELETE}, synced \in 0..1 :
       db = [EmptyDb EXCEPT ![t] =
               [i \in 1..(n + synced) |->
                  IF i <= n THEN StatusRow(OFFLINE, [EmptyMeta EXCEPT !.pendingOperation = operation])
                  ELSE StatusRow(SYNCED, EmptyMeta)]]
  /\ now = 1
  /\ bus = <<>>
  /\ lastOp = Idle
  /\ events = NoEvents
  /\ channel = <<>>
  /\ closed = {}
  /\ calls = <<>>
  /\ completionCache = NoCache
  /\ storeCalls = <<>>
  /\ relations = <<>>
  /\ inflight = <<Free>>

NextOffline == MarkOfflineEntitiesForSync \/ Turn \/ Return

SpecOffline == InitOffline /\ [][NextOffline]_vars

(***************************************************************************)
(* The event bus under subscribe, unsubscribe, publish and clear           *)
(***************************************************************************)
BusEvents == {CATEGORY_ADDED, HOBBY_DELETED}

Subscribe ==
  \E event \in BusEvents, callback \in Callbacks :
    /\ lastOp = Idle
    /\ event \in DOMAIN events => Len(events[event]) < MaxSubscribers
    /\ events' = subscribe(events, event, callback)
    /\ lastOp' = BusOp("subscribe", event, callback, NoMessage, TRUE)
    /\ UNCHANGED <<db, now, bus, channel, calls, completionCache, storeCalls, relations, inflight, closed>>

\* The closure returned to a subscriber that is still on the list.
Unsubscribe ==
  \E event \in BusEvents, callback \in Callbacks :
    /\ lastOp = Idle
    /\ event \in DOMAIN events
    /\ IndexOf(events[event], callback) # 0
    /\ LET r == unsubscribe(events, event, callback)
       IN /\ events' = r.events
          /\ lastOp' = BusOp("unsubscribe", event, callback, NoMessage, r.ok)
    /\ UNCHANGED <<db, now, bus, channel, calls, completionCache, storeCalls, relations, inflight, closed>>

Publish ==
  \E event \in BusEvents :
    /\ lastOp = Idle
    /\ LET r == publish(events, event)
       IN /\ calls' = r.calls
          /\ storeCalls' = StartedBy(r.calls, DataEntry("bus", event, 0, "data", FALSE))
          /\ lastOp' = BusOp("publish", event, "", NoMessage, r.ok)
    /\ UNCHANGED <<db, now, bus, channel, events, completionCache, relations, inflight, closed>>

Clear ==
  \E event \in BusEvents :
    /\ lastOp = Idle
    /\ events' = clear(events, event)
    /\ lastOp' = BusOp("clear", event, "", NoMessage, TRUE)
    /\ UNCHANGED <<db, now, bus, channel, calls, completionCache, storeCalls, relations, inflight, closed>>

ClearAll ==
  /\ lastOp = Idle
  /\ events' = clearAll(events)
  /\ lastOp' = BusOp("clearAll", "", "", NoMessage, TRUE)
  /\ UNCHANGED <<db, now, bus, channel, calls, completionCache, storeCalls, relations, inflight, closed>>

NextBus == Subscribe \/ Unsubscribe \/ Publish \/ Clear \/ ClearAll \/ Return

SpecBus == Init /\ [][NextBus]_vars

(***************************************************************************)
(* The bus with the relation handlers set up and torn down, next to one    *)
(* other subscriber                                                        *)
(***************************************************************************)
\* setupRelationHandlers(), for the k-th time in this process
SetupRelationHandlers ==
  /\ lastOp = Idle
  /\ Len(relations) < MaxSetups
  /\ LET k == Len(relations) + 1
     IN /\ events' = setupRelationHandlers(events, k)
        /\ relations' = Append(relations, "installed")
        /\ lastOp' = OpVal("setupRelationHandlers", "", k, "", k)
  /\ UNCHANGED <<db, now, bus, channel, calls, completionCache, storeCalls, inflight, closed>>

\* The function the k-th setupRelationHandlers() returned is called; it may
\* be called again later.
Cleanup ==
  \E k \in 1..Len(relations) :
    /\ lastOp = Idle
    /\ LET r == cleanup(events, k)
       IN /\ events' = r.events
          /\ relations' = IF r.ok THEN [relations EXCEPT ![k] = "removed"] ELSE relations
          /\ lastOp' = [OpVal("cleanup", "", k, "", k) EXCEPT !.ok = r.ok]
    /\ UNCHANGED <<db, now, bus, channel, calls, completionCache, storeCalls, inflight, closed>>

\* Another module subscribes its logger to HOBBY_DELETED or takes it off.
SubscribeLogger == Subscribe /\ lastOp'.event = HOBBY_DELETED /\ lastOp'.callback = "logger"

UnsubscribeLogger == Unsubscribe /\ lastOp'.event = HOBBY_DELETED /\ lastOp'.callback = "logger"

NextRelations == SetupRelationHandlers \/ Cleanup \/ SubscribeLogger \/ UnsubscribeLogger \/ Publish \/ Clear \/ ClearAll \/ Return

SpecRelations == Init /\ [][NextRelations]_vars

(***************************************************************************)
(* Two tabs: tab A posts on the channel, tab B receives                    *)
(***************************************************************************)
TabEvents == {CATEGORY_ADDED, HOBBY_DELETED}

\* What else can arrive on the channel: null, a string, an object without
\* type, one without timestamp, and objects whose type is no event name.
ForeignPayloads ==
  { Payload("null", FALSE, "", FALSE, 0, ""),
    Payload("string", FALSE, "", FALSE, 0, ""),
    Payload("object", FALSE, "", TRUE, 1, ""),
    Payload("object", TRUE, CATEGORY_ADDED, FALSE, 0, ""),
    Payload("object", TRUE, "unknown:event", TRUE, 1, ""),
    Payload("object", TRUE, "CATEGORY_ADDED", TRUE, 1, ""),
    Payload("object", TRUE, "toString", TRUE, 1, ""),
    Payload("object", TRUE, "__defineGetter__", TRUE, 1, "") }

\* Tab B has subscribed two callbacks to some of the events.
InitTabs ==
  /\ db = EmptyDb
  /\ now = 1
  /\ bus = <<>>
  /\ lastOp = Idle
  /\ \E S \in SUBSET TabEvents : events = [e \in S |-> <<"refresher", "logger">>]
  /\ channel = <<>>
  /\ closed = {}
  /\ calls = <<>>
  /\ completionCache = NoCache
  /\ storeCalls = <<>>
  /\ relations = <<>>
  /\ inflight = <<Free>>

\* The tabs that hold a broadcast service; a third context posts on the
\* channel without one.
Tabs == {"A", Receiver}

\* Tab A: broadcastService.broadcast(type, data).
Broadcast ==
  \E type \in TabEvents :
    /\ lastOp = Idle
    /\ Len(channel) < MaxInFlight
    /\ LET r == postMessage(channel, broadcast(type, now), "A", closed)
       IN /\ channel' = r.channel
          /\ lastOp' = [BusOp("broadcast", type, "", broadcast(type, now), r.error = NoError) EXCEPT !.error = r.error, !.rejected = (r.error # NoError)]
    /\ UNCHANGED <<db, now, bus, events, calls, completionCache, storeCalls, relations, inflight, closed>>

\* Another sender on the same channel: channel.postMessage(payload).
PostMessage ==
  \E payload \in ForeignPayloads :
    /\ lastOp = Idle
    /\ Len(channel) < MaxInFlight
    /\ channel' = postMessage(channel, payload, "other", closed).channel
    /\ lastOp' = BusOp("postMessage", "", "", payload, TRUE)
    /\ UNCHANGED <<db, now, bus, events, calls, completionCache, storeCalls, relations, inflight, closed>>

\* Tab B: the channel delivers its oldest message to onmessage.
Receive ==
  /\ lastOp = Idle
  /\ channel # <<>>
  /\ Receiver \notin closed
  /\ LET r == onmessage(events, Head(channel))
     IN /\ bus' = r.ev
        /\ calls' = r.calls
        /\ storeCalls' = StartedBy(r.calls, Head(channel))
        /\ lastOp' = BusOp("receive", "", "", Head(channel), r.ok)
  /\ channel' = Tail(channel)
  /\ UNCHANGED <<db, now, events, completionCache, relations, inflight, closed>>

\* Tab A or tab B: broadcastService.close().
Close ==
  \E tab \in Tabs :
    /\ lastOp = Idle
    /\ LET r == close(channel, closed, tab)
       IN /\ channel' = r.channel
          /\ closed' = r.closed
    /\ lastOp' = BusOp("close", "", tab, NoMessage, TRUE)
    /\ UNCHANGED <<db, now, bus, events, calls, completionCache, storeCalls, relations, inflight>>

NextTabs == Broadcast \/ PostMessage \/ Receive \/ Close \/ Return

SpecTabs == InitTabs /\ [][NextTabs]_vars

\* The channel delivers every message and every call returns.
SpecTabsFair == InitTabs /\ [][NextTabs]_vars /\ WF_vars(Return) /\ SF_vars(Receive)


(***************************************************************************)
(* The completion of one goal over stores of goals and progress records    *)
(***************************************************************************)
GoalTypes == {"count", "quantity", "composite"}
TargetValues == {Ratio(1, 2), Ratio(2, 1)}
TimeRequirements == {NoNumber, Zero, Ratio(1, 2), Ratio(2, 1)}
Values == {Ratio(-1, 1), Ratio(1, 2), Ratio(2, 1)}
Durations == {NoNumber, Ratio(1, 4), Ratio(2, 1)}
GoalIds == {1, 2}

\* Goal 1 with n progress records (or no goal 1 at all), and possibly a
\* record of goal 2, which has no row.
InitCompletion ==
  /\ \E n \in 0..MaxRecords, hasGoal \in BOOLEAN, other \in BOOLEAN :
       \E type \in GoalTypes, targetValue \in TargetValues, timeRequirement \in TimeRequirements :
         \E value \in [1..n -> Values], duration \in [1..n -> Durations] :
           db = [EmptyDb EXCEPT
                   !["goals"] = IF hasGoal THEN [i \in {1} |-> GoalRow(1, type, targetValue, timeRequirement)] ELSE <<>>,
                   !["progress"] = [i \in 1..(IF other THEN n + 1 ELSE n) |->
                                      IF i <= n THEN ProgressRow(1, value[i], duration[i]) ELSE ProgressRow(2, Ratio(2, 1), Ratio(2, 1))]]
  /\ now = 1
  /\ bus = <<>>
  /\ lastOp = Idle
  /\ events = NoEvents
  /\ channel = <<>>
  /\ closed = {}
  /\ calls = <<>>
  /\ completionCache = NoCache
  /\ storeCalls = <<>>
  /\ relations = <<>>
  /\ inflight = <<Free>>

\* goalService.calculateCompletion(goalId)
\* A hit returns the cached value without a store call; a miss awaits the
\* store.
CalculateCompletion ==
  \E goalId \in GoalIds :
    LET r == calculateCompletion(completionCache, goalId, now)
        op == Op("calculateCompletion", "goals", goalId, "", TRUE, 0, Undef)
    IN IF r.call.pc = "done"
       THEN /\ Ready
            /\ lastOp' = [op EXCEPT !.result = r.call.value]
            /\ UNCHANGED <<db, now, bus, events, channel, calls, completionCache, storeCalls, relations, inflight, closed>>
       ELSE Start(op, r.todo, FALSE)

\* The same call when one of its store calls rejects.
CalculateCompletionOrFail ==
  \E goalId \in GoalIds, fault \in Faults(2) \ {NoFault} :
    /\ calculateCompletion(completionCache, goalId, now).call.pc # "done"
    /\ Start(Faulted(Op("calculateCompletion", "goals", goalId, "", TRUE, 0, Undef), fault), calculateCompletion(completionCache, goalId, now).todo, FALSE)

NextCompletion == CalculateCompletion \/ CalculateCompletionOrFail \/ Turn

SpecCompletion == InitCompletion /\ [][NextCompletion]_vars


(***************************************************************************)
(* Bulk operations of the base service on one table                        *)
(***************************************************************************)
BulkIds == {1, 2}

\* The batches a caller passes: up to MaxBatch ids, repetitions included.
Batches == UNION {[1..n -> BulkIds] : n \in 0..MaxBatch}

ItemsOf(ids, name) == [k \in 1..Len(ids) |-> [id |-> ids[k], parent |-> 0, name |-> name]]

BulkOp(name, ids, ok) == [Op(name, SyncTable, 0, "", ok, 0, Undef) EXCEPT !.batch = ids]

BulkAdd ==
  \E ids \in Batches :
    Start(BulkOp("bulkAdd", ids, TRUE), bulkAdd(SyncTable, ItemsOf(ids, 1)), FALSE)

\* fails: the table call rejects.
BulkPut ==
  \E ids \in Batches, fails \in BOOLEAN :
    Start(Faulted(BulkOp("bulkPut", ids, TRUE), IF fails THEN [at |-> 1, error |-> DatabaseClosedError] ELSE NoFault),
          bulkPut(SyncTable, ItemsOf(ids, 2)), FALSE)

\* fails: the table call rejects; it is the statement after the markers,
\* the first one when the batch is empty.
BulkDelete ==
  \E ids \in Batches, fails \in BOOLEAN :
    Start(Faulted(BulkOp("bulkDelete", ids, TRUE),
                  IF fails THEN [at |-> Len(MarkAll(SyncTable, ids, DELETE)) + 1, error |-> DatabaseClosedError] ELSE NoFault),
          bulkDelete(SyncTable, ItemsOf(ids, 1)), FALSE)

\* goalService / progressService.bulkAdd, bulkPut, bulkDelete
BulkPlain ==
  \E t \in {"goals", "progress"}, op \in {"bulkAdd", "bulkPut", "bulkDelete"}, ids \in Batches, fails \in BOOLEAN :
    /\ Ready
    /\ \E r \in {PlainBulk(db, t, op, ItemsOf(ids, IF op = "bulkPut" THEN 2 ELSE 1), fails)} :
         /\ db' = r.db
         /\ bus' = r.ev
         /\ lastOp' = [Op(op, t, 0, "", r.error = NoError, 0, Undef) EXCEPT
                         !.batch = ids, !.rejected = (r.error # NoError), !.error = r.error,
                         !.fault = IF fails THEN [at |-> 1, error |-> DatabaseClosedError] ELSE NoFault]
    /\ UNCHANGED <<now, events, channel, calls, completionCache, storeCalls, relations, inflight, closed>>

NextBulk == BulkAdd \/ BulkPut \/ BulkDelete \/ Turn \/ Tick \/ Return

SpecBulk == Init /\ [][NextBulk]_vars

\* The bulk operations of the plain base service on their own.
NextPlainBulk == BulkPlain \/ Return

SpecPlainBulk == Init /\ [][NextPlainBulk]_vars


(***************************************************************************)
(* Goals, their progress records and the completion cache, with the        *)
(* relation handlers installed                                             *)
(***************************************************************************)
\* Category 1 with hobby 1 and goal 1 (count, target 2); goal 2 and one
\* progress record per goal may be there as well.
GoalsStore ==
  /\ \E goal2 \in BOOLEAN, record1 \in BOOLEAN, record2 \in BOOLEAN :
       db = [EmptyDb EXCEPT
               !["categories"] = [i \in {1} |-> SyncableEntity(0, 1)],
               !["hobbies"] = [i \in {1} |-> SyncableEntity(1, 1)],
               !["goals"] = [i \in (IF goal2 THEN {1, 2} ELSE {1}) |-> GoalRow(1, "count", Ratio(2, 1), NoNumber)],
               !["progress"] = [i \in (IF record1 THEN {1} ELSE {}) \cup (IF record2 THEN {2} ELSE {}) |-> ProgressRow(i, One, NoNumber)]]
  /\ now = 1
  /\ bus = <<>>
  /\ lastOp = Idle
  /\ events = setupRelationHandlers(NoEvents, 1)
  /\ channel = <<>>
  /\ closed = {}
  /\ calls = <<>>
  /\ completionCache = NoCache
  /\ storeCalls = <<>>
  /\ relations = <<"installed">>

\* One caller: a call is made when the one before it has returned.
InitGoals == GoalsStore /\ inflight = <<Free>>

\* Two callers: a call may be made while another is awaiting the store.
InitOverlap == GoalsStore /\ inflight = <<Free, Free>>

\* No call in flight has a request pending on table t: a request made now is
\* served before any that a call in flight makes later.
Quiet(t) == \A i \in DOMAIN inflight : IF inflight[i] = Free THEN TRUE ELSE t \notin Footprint(inflight[i]).tables

\* Time passes between two calls: just under the TTL, or the TTL.
Elapse ==
  \E ms \in {CACHE_TTL - 1, CACHE_TTL} :
    /\ Ready
    /\ now + ms <= MaxClock
    /\ now' = now + ms
    /\ UNCHANGED <<db, bus, lastOp, events, channel, calls, completionCache, storeCalls, relations, inflight, closed>>

\* goalService.clearCompletionCache(goalId?)
ClearCompletionCache ==
  \E goalId \in {0} \cup GoalIds :
    /\ Ready
    /\ completionCache' = clearCompletionCache(completionCache, goalId)
    /\ lastOp' = Op("clearCompletionCache", "goals", goalId, "", TRUE, 0, Undef)
    /\ UNCHANGED <<db, now, bus, events, channel, calls, storeCalls, relations, inflight, closed>>

\* progressService.add(record) for a record of goal goalId
AddProgress ==
  \E id \in GoalIds, goalId \in GoalIds :
    /\ Ready
    /\ Quiet("progress")
    /\ LET r == ProgressAdd(db, id, ProgressRow(goalId, One, NoNumber))
       IN /\ db' = r.db
          /\ bus' = r.ev
          /\ calls' = Deliver(events, r.ev, 1).calls
          /\ storeCalls' = Deliver(events, r.ev, 1).stores
          /\ lastOp' = [Op("addProgress", "progress", id, "", r.ok, 0, Undef) EXCEPT !.val = goalId, !.rejected = ~r.ok, !.error = r.error]
    /\ UNCHANGED <<now, events, channel, completionCache, relations, inflight, closed>>

\* progressService.update(id, {value})
UpdateProgress ==
  \E id \in GoalIds :
    /\ Ready
    /\ Quiet("progress")
    /\ Has(db, "progress", id)
    /\ LET r == ProgressUpdate(db, id, Ratio(2, 1))
       IN /\ db' = r.db
          /\ bus' = r.ev
          /\ calls' = Deliver(events, r.ev, 1).calls
          /\ storeCalls' = Deliver(events, r.ev, 1).stores
          /\ lastOp' = [Op("updateProgress", "progress", id, "", r.ok, 0, Undef) EXCEPT !.val = db["progress"][id].parent]
    /\ UNCHANGED <<now, events, channel, completionCache, relations, inflight, closed>>

\* progressService.delete(id)
DeleteProgress ==
  \E id \in GoalIds :
    /\ Ready
    /\ Quiet("progress")
    /\ Has(db, "progress", id)
    /\ LET r == PlainDelete(db, "progress", id)
       IN /\ db' = r.db
          /\ bus' = r.ev
          /\ calls' = Deliver(events, r.ev, 1).calls
          /\ storeCalls' = Deliver(events, r.ev, 1).stores
          /\ lastOp' = [Op("deleteProgress", "progress", id, "", r.ok, 0, Undef) EXCEPT !.val = db["progress"][id].parent]
    /\ UNCHANGED <<now, events, channel, completionCache, relations, inflight, closed>>

NextGoals == CalculateCompletion \/ ClearCompletionCache \/ Elapse \/ AddProgress \/ UpdateProgress \/ DeleteProgress \/ Turn \/ Return

SpecGoals == InitGoals /\ [][NextGoals]_vars

\* The cascades on such a store, next to calculateCompletion.
NextRefresh == CalculateCompletion \/ DeleteWithRelated \/ Turn \/ Return

SpecRefresh == InitGoals /\ [][NextRefresh]_vars

\* calculateCompletion calls that overlap each other and progressService.add.
NextOverlap == CalculateCompletion \/ AddProgress \/ Turn \/ Return

SpecOverlap == InitOverlap /\ [][NextOverlap]_vars


(***************************************************************************)
(* The base-service operations and safeDelete when store calls reject      *)
(***************************************************************************)
ErrorTables == {"categories", "hobbies"}

ErrorIds == {1}

\* An operation that ended in error (or in none), under fault.
Failed(name, t, id, fault, error) ==
  [Op(name, t, id, "", error = NoError, fault.at, Undef) EXCEPT !.fault = fault, !.error = error, !.rejected = (error # NoError)]

\* getAll() / getById(id)
GetOrFail ==
  \E t \in ErrorTables, op \in {"getAll", "getById"}, id \in ErrorIds, fault \in Faults(1) :
    /\ Ready
    /\ lastOp' = Failed(op, t, id, fault, BaseRead(db, t, op, id, fault).error)
    /\ UNCHANGED <<db, now, bus, events, channel, calls, completionCache, storeCalls, relations, inflight, closed>>

\* add(item) of the base service
AddOrFail ==
  \E t \in ErrorTables, id \in ErrorIds, fault \in Faults(2) :
    Start(Faulted(Op("add", t, id, "", TRUE, 0, Undef), fault), BaseAdd(t, id, [parent |-> IF t = "categories" THEN 0 ELSE 1, name |-> 1]), FALSE)

\* update(id, changes) of the base service
UpdateOrFail ==
  \E t \in ErrorTables, id \in ErrorIds, fault \in Faults(2) :
    Start(Faulted(Op("update", t, id, "", TRUE, 0, Undef), fault), BaseUpdate(t, id, [parent |-> NotSupplied, name |-> 2]), FALSE)

\* delete(id) of the base service
DeleteOrFail ==
  \E t \in ErrorTables, id \in ErrorIds, fault \in Faults(2) :
    Start(Faulted(Op("delete", t, id, "", TRUE, 0, Undef), fault), BaseDelete(t, id), FALSE)

\* bulkAdd(items) / bulkPut(items) / bulkDelete(ids) of the base service
BulkOrFail ==
  \E op \in {"bulkAdd", "bulkPut", "bulkDelete"}, ids \in Batches, fault \in Faults(2) :
    Start(Faulted([Op(op, "categories", 0, "", TRUE, 0, Undef) EXCEPT !.batch = ids], fault),
          CASE op = "bulkAdd" -> bulkAdd("categories", ItemsOf(ids, 1))
            [] op = "bulkPut" -> bulkPut("categories", ItemsOf(ids, 1))
            [] op = "bulkDelete" -> bulkDelete("categories", ItemsOf(ids, 1)),
          FALSE)

\* safeDelete(id) of the Category and Hobby services
SafeDeleteOrFail ==
  \E t \in ErrorTables, id \in ErrorIds, fault \in Faults(3) \cup {[at |-> 4, error |-> InvalidStateError]} :
    Start(Faulted(Op("safeDelete", t, id, "", TRUE, 0, Undef), fault), safeDelete(t, id).todo, safeDelete(t, id).catches)

NextErrors == GetOrFail \/ AddOrFail \/ UpdateOrFail \/ DeleteOrFail \/ BulkOrFail \/ SafeDeleteOrFail \/ Turn \/ Return

SpecErrors == Init /\ [][NextErrors]_vars


(***************************************************************************)
(* The cascades on trees of two hobbies, two goals and two progress rows   *)
(***************************************************************************)
\* The rows 1 and 2 of table t whose foreign key, given by parents, is not 0.
Children(parents) == [i \in {k \in {1, 2} : parents[k] # 0} |-> SyncableEntity(parents[i], 1)]

\* Category 1; hobbies 1 and 2 of it, or some of them; goals 1 and 2, each
\* under one of the hobbies that exist, or absent; progress rows likewise.
InitCascade ==
  /\ \E hobbies \in [{1, 2} -> {0, 1}], goals \in [{1, 2} -> {0, 1, 2}], progress \in [{1, 2} -> {0, 1, 2}] :
       /\ \A g \in {1, 2} : goals[g] # 0 => hobbies[goals[g]] # 0
       /\ \A p \in {1, 2} : progress[p] # 0 => goals[progress[p]] # 0
       /\ db = [EmptyDb EXCEPT !["categories"] = [i \in {1} |-> SyncableEntity(0, 1)],
                               !["hobbies"] = Children(hobbies),
                               !["goals"] = Children(goals),
                               !["progress"] = Children(progress)]
  /\ now = 1
  /\ bus = <<>>
  /\ lastOp = Idle
  /\ events = NoEvents
  /\ channel = <<>>
  /\ closed = {}
  /\ calls = <<>>
  /\ completionCache = NoCache
  /\ storeCalls = <<>>
  /\ relations = <<>>
  /\ inflight = <<Free>>

NextCascade == DeleteWithRelated \/ Turn \/ Return

SpecCascade == InitCascade /\ [][NextCascade]_vars


(***************************************************************************)
(* The batch operations of the Category and Hobby services                 *)
(***************************************************************************)
BatchTables == {"categories", "hobbies"}

\* The batches a caller passes: up to MaxBatch rows, keys 1 and 2.
BatchItems == UNION {[1..n -> [id : {1, 2}, parent : {0}, name : {1}]] : n \in 0..MaxBatch}

\* failAt: the item whose table call rejects (0: none), the first statement
\* of its pass through the loop; Len(items) + 1: the broadcast of the
\* notification after the commit throws (the statement after the 2 *
\* Len(items) statements of the loop and the commit).
BatchOp(name, t, items, failAt) ==
  Faulted([Op(name, t, 0, "", TRUE, 0, Undef) EXCEPT !.batch = IdsOf(items)],
          IF failAt = 0 THEN NoFault
          ELSE IF failAt = Len(items) + 1 THEN [at |-> 2 * Len(items) + 2, error |-> InvalidStateError]
          ELSE [at |-> 2 * failAt - 1, error |-> DatabaseClosedError])

BulkUpdateWithTransaction ==
  \E t \in BatchTables, items \in BatchItems :
    \E failAt \in 0..(Len(items) + 1) :
      Start(BatchOp("bulkUpdateWithTransaction", t, items, failAt), bulkUpdateWithTransaction(t, items), FALSE)

BulkCreateWithTransaction ==
  \E t \in BatchTables, items \in BatchItems :
    \E failAt \in 0..(Len(items) + 1) :
      /\ RowCount(db) + Len(items) <= MaxRows
      /\ Start(BatchOp("bulkCreateWithTransaction", t, items, failAt), bulkCreateWithTransaction(t, items, FreshIds(db, t, Len(items))), FALSE)

\* failAt: the item whose table call rejects (0: none).
PlainBatchOp(name, t, items, failAt) ==
  Faulted([Op(name, t, 0, "", TRUE, 0, Undef) EXCEPT !.batch = IdsOf(items)],
          IF failAt = 0 THEN NoFault ELSE [at |-> failAt, error |-> DatabaseClosedError])

\* goalService.bulkUpdateWithTransaction(goals)
GoalBulkUpdateWithTransaction ==
  \E items \in BatchItems :
    \E failAt \in 0..Len(items) :
      Start(PlainBatchOp("bulkUpdateWithTransaction", "goals", items, failAt), PlainBulkUpdateWithTransaction("goals", items), FALSE)

\* progressService.bulkUpdateWithTransaction(records)
ProgressBulkUpdateWithTransaction ==
  \E items \in BatchItems :
    \E failAt \in 0..Len(items) :
      Start(PlainBatchOp("bulkUpdateWithTransaction", "progress", items, failAt), PlainBulkUpdateWithTransaction("progress", items), FALSE)

\* progressService.bulkAddWithTransaction(records)
BulkAddWithTransaction ==
  \E items \in BatchItems :
    \E failAt \in 0..Len(items) :
      /\ RowCount(db) + Len(items) <= MaxRows
      /\ Start(PlainBatchOp("bulkAddWithTransaction", "progress", items, failAt),
               bulkAddWithTransaction(items, FreshIds(db, "progress", Len(items))), FALSE)

\* The store before the batches of the Goal and Progress services: one
\* goal, named 2.
InitPlainBatch ==
  /\ db = [EmptyDb EXCEPT !["goals"] = [i \in {1} |-> SyncableEntity(0, 2)]]
  /\ now = 1
  /\ bus = <<>>
  /\ lastOp = Idle
  /\ events = NoEvents
  /\ channel = <<>>
  /\ closed = {}
  /\ calls = <<>>
  /\ completionCache = NoCache
  /\ storeCalls = <<>>
  /\ relations = <<>>
  /\ inflight = <<Free>>

NextBatch == BulkUpdateWithTransaction \/ BulkCreateWithTransaction \/ Turn \/ Return

SpecBatch == Init /\ [][NextBatch]_vars

\* The batch operations of the Goal and Progress services on their own.
NextPlainBatch == GoalBulkUpdateWithTransaction \/ ProgressBulkUpdateWithTransaction \/ BulkAddWithTransaction \/ Turn \/ Return

SpecPlainBatch == InitPlainBatch /\ [][NextPlainBatch]_vars


(***************************************************************************)
(* calculateCompletion calls in flight                                     *)
(*                                                                         *)
(* calculateCompletion is an async function with two awaits.  A call is    *)
(* suspended at `await this.getById(goalId)` and at `await db.progress...  *)
(* .toArray()`.  When the store serves the read of the second await the    *)
(* call resumes with the records in the same turn and runs to its return,  *)
(* the cache write included: nothing is awaited in between.  A write of    *)
(* progress requested while that read is pending is served after it, as    *)
(* the store orders a read/write transaction behind the transactions on    *)
(* the same table that were made before it.                                *)
(***************************************************************************)
InFlightGoal == 1

Slots == 1..MaxInFlight

\* The number of progress rows of the goal that the latest
\* clearCompletionCache call found committed.
Cleared == lastOp.val

\* Goal 1 (or no goal), a count goal whose target no number of records of
\* the model reaches, and no progress yet.
InitInFlight ==
  /\ \E hasGoal \in BOOLEAN :
       db = [EmptyDb EXCEPT
               !["goals"] = IF hasGoal THEN [i \in {InFlightGoal} |-> GoalRow(1, "count", Ratio(MaxRecords + 2, 1), NoNumber)] ELSE <<>>]
  /\ now = 1
  /\ bus = <<>>
  /\ lastOp = Idle
  /\ events = NoEvents
  /\ channel = <<>>
  /\ closed = {}
  /\ calls = <<>>
  /\ completionCache = NoCache
  /\ storeCalls = <<>>
  /\ relations = <<>>
  /\ inflight = [s \in Slots |-> NoCall]

BeginCalculateCompletion ==
  \E s \in Slots :
    /\ inflight[s].pc = "none"
    /\ inflight' = [inflight EXCEPT ![s] = beginCalculateCompletion(completionCache, InFlightGoal, now, Cleared)]
    /\ UNCHANGED <<db, now, bus, lastOp, events, channel, calls, completionCache, storeCalls, relations, closed>>

ResumeAfterGetById ==
  \E s \in Slots :
    /\ inflight[s].pc = "getById"
    /\ inflight' = [inflight EXCEPT ![s] = resumeAfterGetById(inflight[s], db)]
    /\ UNCHANGED <<db, now, bus, lastOp, events, channel, calls, completionCache, storeCalls, relations, closed>>

ResumeAfterToArray ==
  \E s \in Slots :
    /\ inflight[s].pc = "toArray"
    /\ LET r == resumeAfterToArray(serveToArray(inflight[s], db), db, completionCache)
       IN /\ inflight' = [inflight EXCEPT ![s] = r.call]
          /\ completionCache' = r.cache
    /\ UNCHANGED <<db, now, bus, lastOp, events, channel, calls, storeCalls, relations, closed>>

\* The caller has taken the value of a finished call.
TakeResult ==
  \E s \in Slots :
    /\ inflight[s].pc = "done"
    /\ inflight' = [inflight EXCEPT ![s] = NoCall]
    /\ UNCHANGED <<db, now, bus, lastOp, events, channel, calls, completionCache, storeCalls, relations, closed>>

\* progressService.add(record) of one more record of the goal, to its
\* commit, with no read of progress pending before it.
CommitProgress ==
  \E id \in 1..MaxRecords :
    /\ lastOp.name \in {"idle", "clearCompletionCache"}
    /\ \A s \in Slots : inflight[s].pc # "toArray"
    /\ id = Cardinality(DOMAIN db["progress"]) + 1
    /\ LET r == ProgressAdd(db, id, ProgressRow(InFlightGoal, One, NoNumber))
       IN /\ db' = r.db
          /\ bus' = r.ev
          /\ lastOp' = OpVal("addProgress", "progress", id, "", Cleared)
    /\ UNCHANGED <<now, events, channel, calls, completionCache, storeCalls, relations, inflight, closed>>

\* clearCompletionCache(goalId), called after the commit.
ClearAfterCommit ==
  /\ lastOp.name = "addProgress"
  /\ completionCache' = clearCompletionCache(completionCache, InFlightGoal)
  /\ lastOp' = OpVal("clearCompletionCache", "goals", InFlightGoal, "", Cardinality(WhereParentEquals(db, "progress", InFlightGoal)))
  /\ UNCHANGED <<db, now, bus, events, channel, calls, storeCalls, relations, inflight, closed>>

NextInFlight ==
  \/ BeginCalculateCompletion
  \/ ResumeAfterGetById
  \/ ResumeAfterToArray
  \/ TakeResult
  \/ CommitProgress
  \/ ClearAfterCommit

SpecInFlight == InitInFlight /\ [][NextInFlight]_vars


(***************************************************************************)
(* initializeDatabase, called from several tabs on one store               *)
(***************************************************************************)
\* The names of the three default categories, in the order of the array of
\* addDefaultCategories.
DefaultNames == <<1, 2, 3>>

NoInit == [pc |-> "none", categoriesCount |-> NoCount, result |-> Undef]

\* await db.open(): the call goes on to db.categories.count(), or the catch
\* returns false.
resumeAfterOpen(call, fails) ==
  IF fails THEN [call EXCEPT !.pc = "done", !.result = "false"] ELSE [call EXCEPT !.pc = "count"]

\* The store serves db.categories.count().
serveCount(call, d) == [call EXCEPT !.pc = "counted", !.categoriesCount = Cardinality(DOMAIN d["categories"])]

\* addDefaultCategories(): three rows with new random ids and no sync
\* property, added by db.categories.bulkAdd.
addDefaultCategories(d) ==
  LET ids == FreshIds(d, "categories", Len(DefaultNames))
  IN TableBulkAdd(d, "categories", [k \in 1..Len(DefaultNames) |-> [id |-> ids[k], row |-> SyncableEntity(0, DefaultNames[k])]], 1).db

\* const categoriesCount = await ...count() resumes: if (categoriesCount ===
\* 0) await addDefaultCategories(); return true.
resumeAfterCount(call, d) ==
  [call |-> [call EXCEPT !.pc = "done", !.result = "true"],
   db |-> IF call.categoriesCount = 0 THEN addDefaultCategories(d) ELSE d]

InitInitialize ==
  /\ db = EmptyDb
  /\ now = 1
  /\ bus = <<>>
  /\ lastOp = Idle
  /\ events = NoEvents
  /\ channel = <<>>
  /\ closed = {}
  /\ calls = <<>>
  /\ completionCache = NoCache
  /\ storeCalls = <<>>
  /\ relations = <<>>
  /\ inflight = [s \in 1..MaxTabs |-> NoInit]

\* initializeDatabase() is called in a tab that has no call running.
InitializeDatabase ==
  \E s \in 1..MaxTabs :
    /\ inflight[s].pc \in {"none", "done"}
    /\ inflight' = [inflight EXCEPT ![s] = [NoInit EXCEPT !.pc = "open"]]
    /\ UNCHANGED <<db, now, bus, lastOp, events, channel, calls, completionCache, storeCalls, relations, closed>>

ResumeAfterOpen ==
  \E s \in 1..MaxTabs, fails \in BOOLEAN :
    /\ inflight[s].pc = "open"
    /\ inflight' = [inflight EXCEPT ![s] = resumeAfterOpen(inflight[s], fails)]
    /\ UNCHANGED <<db, now, bus, lastOp, events, channel, calls, completionCache, storeCalls, relations, closed>>

ServeCount ==
  \E s \in 1..MaxTabs :
    /\ inflight[s].pc = "count"
    /\ inflight' = [inflight EXCEPT ![s] = serveCount(inflight[s], db)]
    /\ UNCHANGED <<db, now, bus, lastOp, events, channel, calls, completionCache, storeCalls, relations, closed>>

ResumeAfterCount ==
  \E s \in 1..MaxTabs :
    /\ inflight[s].pc = "counted"
    /\ LET r == resumeAfterCount(inflight[s], db)
       IN /\ inflight' = [inflight EXCEPT ![s] = r.call]
          /\ db' = r.db
    /\ UNCHANGED <<now, bus, lastOp, events, channel, calls, completionCache, storeCalls, relations, closed>>

NextInitialize == InitializeDatabase \/ ResumeAfterOpen \/ ServeCount \/ ResumeAfterCount

SpecInitialize == InitInitialize /\ [][NextInitialize]_vars


(***************************************************************************)
(* The event bus with callbacks that unsubscribe while being dispatched    *)
(***************************************************************************)
\* subscribe(event, callback) of a callback the event does not have yet.
SubscribeOnce ==
  \E event \in BusEvents, callback \in Callbacks \cup {"once"} :
    /\ lastOp = Idle
    /\ event \in DOMAIN events => (Len(events[event]) < MaxSubscribers /\ IndexOf(events[event], callback) = 0)
    /\ events' = subscribe(events, event, callback)
    /\ lastOp' = BusOp("subscribe", event, callback, NoMessage, TRUE)
    /\ UNCHANGED <<db, now, bus, channel, calls, completionCache, storeCalls, relations, inflight, closed>>

PublishLive ==
  \E event \in BusEvents :
    /\ lastOp = Idle
    /\ LET r == publishLive(events, event)
       IN /\ calls' = r.calls
          /\ storeCalls' = StartedBy(r.calls, DataEntry("bus", event, 0, "data", FALSE))
          /\ events' = r.events
          /\ lastOp' = BusOp("publish", event, "", NoMessage, r.ok)
    /\ UNCHANGED <<db, now, bus, channel, completionCache, relations, inflight, closed>>

NextLive == SubscribeOnce \/ Unsubscribe \/ PublishLive \/ Return

SpecLive == Init /\ [][NextLive]_vars


(***************************************************************************)
(* safeDelete in flight next to adds of children                           *)
(*                                                                         *)
(* Two callers: while the safeDelete of one is suspended at an await, the  *)
(* other may add a row.                                                    *)
(***************************************************************************)
\* Categories 1 and 2, and hobby 1 of category 1 or no hobby.
InitSafeDelete ==
  /\ \E hobby \in BOOLEAN :
       db = [EmptyDb EXCEPT
               !["categories"] = [i \in {1, 2} |-> SyncableEntity(0, 1)],
               !["hobbies"] = [i \in (IF hobby THEN {1} ELSE {}) |-> SyncableEntity(1, 1)]]
  /\ now = 1
  /\ bus = <<>>
  /\ lastOp = Idle
  /\ events = NoEvents
  /\ channel = <<>>
  /\ closed = {}
  /\ calls = <<>>
  /\ completionCache = NoCache
  /\ storeCalls = <<>>
  /\ relations = <<>>
  /\ inflight = <<Free, Free>>

InFlight(name) == \E i \in DOMAIN inflight : inflight[i].op.name = name

\* One caller calls categoryService.safeDelete, one call at a time.
SafeDeleteCategory ==
  /\ ~InFlight("safeDelete")
  /\ SafeDelete
  /\ \A i \in DOMAIN inflight : inflight'[i].op.name = "safeDelete" => inflight'[i].op.table = "categories"

\* The other caller calls hobbyService.add, one call at a time.
AddHobby ==
  /\ ~InFlight("add")
  /\ Add
  /\ \A i \in DOMAIN inflight : inflight'[i].op.name = "add" => inflight'[i].op.table = "hobbies"

NextSafeDelete == SafeDeleteCategory \/ AddHobby \/ Turn \/ Return

SpecSafeDelete == InitSafeDelete /\ [][NextSafeDelete]_vars


(***************************************************************************)
(* Properties                                                              *)
(***************************************************************************)
\* The rows the last call found and left, and what it published.
Pre == lastOp.pre

Called(name) == lastOp.name = name

Carried(t, id) == id \in DOMAIN Pre[t] /\ id \in DOMAIN db[t]

Published(types) == {i \in 1..Len(bus) : bus[i].type \in types}

\* What a category's subtree held when the cascade was called.
SubHobbies(c) == WhereParentEquals(Pre, "hobbies", c)

SubGoals(c) == {g \in DOMAIN Pre["goals"] : Pre["goals"][g].parent \in SubHobbies(c)}

SubProgress(c) == {p \in DOMAIN Pre["progress"] : Pre["progress"][p].parent \in SubGoals(c)}

Subtree(c) == [t \in Tables |-> CASE t = "categories" -> {c} [] t = "hobbies" -> SubHobbies(c) [] t = "goals" -> SubGoals(c) [] t = "progress" -> SubProgress(c)]

\* C1: a cascading delete (category, hobby or goal) in which a step fails
\* rejects and leaves every table with exactly the rows it held before the
\* call.
C1_CascadeFailureLeavesStore ==
  (Called("deleteWithRelated") /\ lastOp.failAt # 0) => (~lastOp.ok /\ db = Pre)

\* A category cascade failed at its last delete, after a hobby of the category
\* had been marked and the hobbies had been deleted inside the transaction.
C1_Witness ==
  /\ Called("deleteWithRelated")
  /\ lastOp.table = "categories"
  /\ ~lastOp.ok
  /\ SubHobbies(lastOp.id) # {}
  /\ \E i \in Published({ENTITY_SYNC_STATUS_CHANGED}) : bus[i].table = "hobbies"
  /\ \E i \in Published({HOBBY_DELETED}) : bus[i].key = "categoryId"

\* C2: safeDelete on a target with a related child row changes no row and
\* returns success=false with confirmAction="deleteWithRelated"; on an existing
\* target without a related child it deletes exactly the target row and returns
\* success=true.
C2_SafeDelete ==
  Called("safeDelete") =>
    IF WhereParentEquals(Pre, ChildTable(lastOp.table), lastOp.id) # {}
    THEN db = Pre /\ ~lastOp.ok /\ lastOp.confirmAction = "deleteWithRelated"
    ELSE Has(Pre, lastOp.table, lastOp.id) =>
           /\ lastOp.ok
           /\ RowCount(db) = RowCount(Pre) - 1
           /\ ~Has(db, lastOp.table, lastOp.id)
           /\ \A t \in Tables : \A i \in DOMAIN Pre[t] :
                (t # lastOp.table \/ i # lastOp.id) => (Has(db, t, i) /\ db[t][i] = Pre[t][i])

\* safeDelete refused a hobby that has a goal, in a store that holds other rows
\* as well.
C2_Witness ==
  /\ Called("safeDelete")
  /\ lastOp.table = "hobbies"
  /\ Has(Pre, "hobbies", lastOp.id)
  /\ WhereParentEquals(Pre, "goals", lastOp.id) # {}
  /\ ~lastOp.ok
  /\ RowCount(db) >= 3

\* C3: after CategoryService.deleteWithRelated(c) succeeds the store holds
\* neither category c, nor a hobby whose categoryId was c, nor a goal of those
\* hobbies, nor a progress row of those goals, and every row outside that
\* subtree is still present.
C3_CategoryCascadeSubtree ==
  (Called("deleteWithRelated") /\ lastOp.table = "categories" /\ lastOp.ok) =>
    \A t \in Tables :
      /\ \A i \in Subtree(lastOp.id)[t] : ~Has(db, t, i)
      /\ \A i \in DOMAIN Pre[t] \ Subtree(lastOp.id)[t] : Has(db, t, i) /\ DomainOf(db[t][i]) = DomainOf(Pre[t][i])
      /\ DOMAIN db[t] \subseteq DOMAIN Pre[t]

\* A category cascade succeeded on a category with a hobby that had a goal,
\* and rows outside the subtree remain.
C3_Witness ==
  /\ Called("deleteWithRelated")
  /\ lastOp.table = "categories"
  /\ lastOp.ok
  /\ Has(Pre, "categories", lastOp.id)
  /\ SubHobbies(lastOp.id) # {}
  /\ SubGoals(lastOp.id) # {}
  /\ RowCount(db) > 0

\* C4: a change event of a mutation is published on the event bus and posted
\* to the cross-tab channel only after the storage transaction of the mutation
\* has committed, and a mutation whose transaction fails publishes no change
\* event.
C4_EventsOnlyAfterCommit ==
  \A i \in Published(DataEvent) : ~bus[i].inTxn /\ lastOp.ok

\* C5: markForSync(table, id, op) on an existing row, whatever its status,
\* leaves it with syncStatus=pending, pendingOperation=op and a defined
\* localUpdatedAt; add(item) persists the row with syncStatus=pending,
\* pendingOperation=create and a defined localUpdatedAt.
C5_MarkForSyncResult ==
  /\ (Called("markForSync") /\ Has(Pre, lastOp.table, lastOp.id)) =>
       /\ Has(db, lastOp.table, lastOp.id)
       /\ db[lastOp.table][lastOp.id].syncStatus = PENDING
       /\ db[lastOp.table][lastOp.id].pendingOperation = lastOp.arg
       /\ db[lastOp.table][lastOp.id].localUpdatedAt \in lastOp.at..now
  /\ (Called("add") /\ lastOp.ok) =>
       /\ Has(db, lastOp.table, lastOp.id)
       /\ db[lastOp.table][lastOp.id].syncStatus = PENDING
       /\ db[lastOp.table][lastOp.id].pendingOperation = CREATE
       /\ db[lastOp.table][lastOp.id].localUpdatedAt \in lastOp.at..now

\* markForSync(delete) was called, after the clock had advanced, on a row that
\* was in conflict.
C5_Witness ==
  /\ Called("markForSync")
  /\ lastOp.arg = DELETE
  /\ Has(Pre, lastOp.table, lastOp.id)
  /\ Pre[lastOp.table][lastOp.id].syncStatus = CONFLICT
  /\ Pre[lastOp.table][lastOp.id].localUpdatedAt < now

\* C6: no call takes a row from failed directly to synced.
C6_NoFailedToSynced ==
  \A t \in Tables : \A id \in Ids :
    (Carried(t, id) /\ Pre[t][id].syncStatus = FAILED) => db[t][id].syncStatus # SYNCED

\* C7: a local update or markForSync on a row in conflict leaves its
\* syncStatus and its conflictData as they were; only resolveConflict takes
\* the row out of conflict.
C7_ConflictOnlyResolved ==
  \A t \in Tables : \A id \in Ids :
    (Carried(t, id) /\ Pre[t][id].syncStatus = CONFLICT /\ lastOp.name \in {"update", "markForSync"}) =>
      (db[t][id].syncStatus = CONFLICT /\ db[t][id].conflictData = Pre[t][id].conflictData)

\* C8: resolveConflict(..., "server") on a row in conflict leaves it with
\* syncStatus=synced, conflictData=null, lastSyncedAt and serverUpdatedAt
\* stamped with the time of the call, and the domain fields the server snapshot
\* supplies equal to the snapshot's values.
C8_ResolveServer ==
  (Called("resolveConflict") /\ lastOp.arg = "server" /\ Has(Pre, lastOp.table, lastOp.id)
     /\ Pre[lastOp.table][lastOp.id].syncStatus = CONFLICT) =>
    /\ Has(db, lastOp.table, lastOp.id)
    /\ db[lastOp.table][lastOp.id].syncStatus = SYNCED
    /\ db[lastOp.table][lastOp.id].conflictData = Null
    /\ db[lastOp.table][lastOp.id].lastSyncedAt = lastOp.at
    /\ db[lastOp.table][lastOp.id].serverUpdatedAt = lastOp.at
    /\ db[lastOp.table][lastOp.id].name = lastOp.val

\* A conflict holding the remote version was resolved server-wins with a name
\* other than the local one.
C8_Witness ==
  /\ Called("resolveConflict")
  /\ lastOp.arg = "server"
  /\ Has(Pre, lastOp.table, lastOp.id)
  /\ Pre[lastOp.table][lastOp.id].syncStatus = CONFLICT
  /\ Pre[lastOp.table][lastOp.id].conflictData = "remote"
  /\ Pre[lastOp.table][lastOp.id].name # lastOp.val

\* C9: resolveConflict(..., "local") on a row in conflict leaves it with
\* syncStatus=pending and pendingOperation=update, its domain fields unchanged.
C9_ResolveLocal ==
  (Called("resolveConflict") /\ lastOp.arg = "local" /\ Has(Pre, lastOp.table, lastOp.id)
     /\ Pre[lastOp.table][lastOp.id].syncStatus = CONFLICT) =>
    /\ Has(db, lastOp.table, lastOp.id)
    /\ db[lastOp.table][lastOp.id].syncStatus = PENDING
    /\ db[lastOp.table][lastOp.id].pendingOperation = UPDATE
    /\ DomainOf(db[lastOp.table][lastOp.id]) = DomainOf(Pre[lastOp.table][lastOp.id])

\* A conflict was resolved local-wins while the server snapshot carried a
\* name other than the local one.
C9_Witness ==
  /\ Called("resolveConflict")
  /\ lastOp.arg = "local"
  /\ Has(Pre, lastOp.table, lastOp.id)
  /\ Pre[lastOp.table][lastOp.id].syncStatus = CONFLICT
  /\ Pre[lastOp.table][lastOp.id].name # lastOp.val

\* C10: a call that takes a row from pending or syncing to failed increases
\* its retryCount by one (from zero when it had none) and leaves errorMessage
\* and lastAttemptAt set.
C10_FailedCountsRetry ==
  \A t \in Tables : \A id \in Ids :
    (Carried(t, id) /\ Pre[t][id].syncStatus \in {PENDING, SYNCING} /\ db[t][id].syncStatus = FAILED) =>
      /\ db[t][id].retryCount = (IF Pre[t][id].retryCount = NoCount THEN 0 ELSE Pre[t][id].retryCount) + 1
      /\ db[t][id].errorMessage \notin {Undef, Null}
      /\ db[t][id].lastAttemptAt # NoTime

\* The tracker's status operations.
TrackerOps == {"updateEntitySyncStatus", "batchUpdateSyncStatus", "markForSync", "markOfflineEntitiesForSync"}

\* Number of rows of the store d in status s, over the four tables.
RowsIn(d, s) == Cardinality(UNION {{<<t, i>> : i \in {j \in DOMAIN d[t] : d[t][j].syncStatus = s}} : t \in Tables})

LastOf(S) == CHOOSE i \in S : \A j \in S : j <= i

\* C11: a call that takes a row from pending or syncing to synced sets its
\* lastSyncedAt to the time of the call and leaves it with no pendingOperation
\* (none or absent), no conflictData and no errorMessage.
C11_SyncedClearsPending ==
  \A t \in Tables : \A id \in Ids :
    (Carried(t, id) /\ Pre[t][id].syncStatus \in {PENDING, SYNCING} /\ db[t][id].syncStatus = SYNCED) =>
      /\ db[t][id].lastSyncedAt \in lastOp.at..now
      /\ db[t][id].pendingOperation \in {Undef, Null, NONE}
      /\ db[t][id].conflictData \in {Undef, Null}
      /\ db[t][id].errorMessage \in {Undef, Null}

\* C13: updateEntitySyncStatus for an id that has no row returns normally,
\* writes nothing and publishes neither an entity status-change event nor a
\* global count event.
C13_MissingRowIsSilent ==
  (Called("updateEntitySyncStatus") /\ ~Has(Pre, lastOp.table, lastOp.id)) =>
    (lastOp.ok /\ db = Pre /\ bus = <<>>)

\* updateEntitySyncStatus(failed, error patch) was called for a row that a
\* delete had removed.
C13_Witness ==
  /\ Called("updateEntitySyncStatus")
  /\ ~Has(Pre, lastOp.table, lastOp.id)
  /\ lastOp.arg = FAILED
  /\ lastOp.confirmAction = "error"

\* C15: after a completed operation that changed the number of pending, failed
\* or conflict rows, the GLOBAL_SYNC_STATUS_CHANGED totals published last equal
\* the current numbers of pending, failed and conflict rows over the four
\* tables.
C15_LastGlobalIsCurrent ==
  (lastOp # Idle /\ \E s \in {PENDING, FAILED, CONFLICT} : RowsIn(db, s) # RowsIn(Pre, s)) =>
    /\ Published({GLOBAL_SYNC_STATUS_CHANGED}) # {}
    /\ LET g == bus[LastOf(Published({GLOBAL_SYNC_STATUS_CHANGED}))]
       IN /\ g.pending = RowsIn(db, PENDING)
          /\ g.failed = RowsIn(db, FAILED)
          /\ g.conflict = RowsIn(db, CONFLICT)

\* C16: updateEntitySyncStatus, batchUpdateSyncStatus, markForSync and
\* markOfflineEntitiesForSync add no row, remove no row and leave the domain
\* fields of every row as they were.
C16_TrackerKeepsDomainFields ==
  (lastOp.name \in TrackerOps) =>
    \A t \in Tables :
      /\ DOMAIN db[t] = DOMAIN Pre[t]
      /\ \A i \in DOMAIN Pre[t] : DomainOf(db[t][i]) = DomainOf(Pre[t][i])

\* A status update rewrote the sync fields of a row that a local update had
\* renamed.
C16_Witness ==
  /\ Called("updateEntitySyncStatus")
  /\ Has(Pre, lastOp.table, lastOp.id)
  /\ Pre[lastOp.table][lastOp.id].name = MaxVal
  /\ Pre[lastOp.table][lastOp.id].syncStatus # db[lastOp.table][lastOp.id].syncStatus
  /\ lastOp.confirmAction = "conflict"

\* C12: markOfflineEntitiesForSync leaves no row of any table offline, however
\* many there were: every row that was offline is pending and keeps the
\* pendingOperation it had.
C12_NoRowLeftOffline ==
  Called("markOfflineEntitiesForSync") =>
    \A t \in Tables : \A i \in DOMAIN db[t] :
      /\ db[t][i].syncStatus # OFFLINE
      /\ (i \in DOMAIN Pre[t] /\ Pre[t][i].syncStatus = OFFLINE) =>
           /\ db[t][i].syncStatus = PENDING
           /\ Pre[t][i].pendingOperation \notin {Undef, Null} => db[t][i].pendingOperation = Pre[t][i].pendingOperation

\* C14: a GLOBAL_SYNC_STATUS_CHANGED event published by a status write
\* (updateEntitySyncStatus, markForSync, resolveConflict) carries the numbers
\* of pending, failed and conflict rows over the four tables as they are when
\* it is published.
C14_GlobalTotalsAreCounts ==
  (lastOp.name \in {"updateEntitySyncStatus", "markForSync", "resolveConflict"}) =>
    \A i \in Published({GLOBAL_SYNC_STATUS_CHANGED}) :
      /\ bus[i].pending = RowsIn(db, PENDING)
      /\ bus[i].failed = RowsIn(db, FAILED)
      /\ bus[i].conflict = RowsIn(db, CONFLICT)

\* Of four categories {synced, pending, failed, conflict} the synced one was
\* marked pending, and the totals 2, 1, 1 were published.
C14_Witness ==
  /\ Called("markForSync")
  /\ DOMAIN Pre["categories"] = 1..4
  /\ Pre["hobbies"] = <<>> /\ Pre["goals"] = <<>> /\ Pre["progress"] = <<>>
  /\ Pre["categories"][1].syncStatus = SYNCED
  /\ {Pre["categories"][i].syncStatus : i \in 2..4} = {PENDING, FAILED, CONFLICT}
  /\ \E i \in Published({GLOBAL_SYNC_STATUS_CHANGED}) :
       bus[i].pending = 2 /\ bus[i].failed = 1 /\ bus[i].conflict = 1

Count(seq, x) == Cardinality({i \in 1..Len(seq) : seq[i] = x})

\* The callbacks subscribed to the event of the last call when it was made.
Subscribed == IF lastOp.event \in DOMAIN lastOp.subs THEN lastOp.subs[lastOp.event] ELSE <<>>

\* C17: when publish(event, data) runs and a subscriber of the event throws,
\* every subscriber of the event is still invoked (as often as it is
\* subscribed) and publish returns normally.
C17_ThrowingSubscriberIsContained ==
  (Called("publish") /\ \E i \in 1..Len(Subscribed) : Throws(Subscribed[i])) =>
    /\ lastOp.ok
    /\ \A callback \in Callbacks : Count(calls, callback) = Count(Subscribed, callback)

\* publish ran with the throwing callback subscribed first and two others
\* after it.
C17_Witness ==
  /\ Called("publish")
  /\ Len(Subscribed) = 3
  /\ Throws(Subscribed[1])
  /\ ~Throws(Subscribed[2]) /\ ~Throws(Subscribed[3])
  /\ Len(calls) = 3

\* C18: subscribe puts the callback after the callbacks already subscribed to
\* the event, and publish invokes the subscribers of the event in that order.
C18_SubscriptionOrder ==
  /\ Called("subscribe") =>
       (lastOp.event \in DOMAIN events /\ events[lastOp.event] = Append(Subscribed, lastOp.callback))
  /\ Called("publish") => calls = Subscribed

\* publish ran on an event with three different subscribers.
C18_Witness ==
  /\ Called("publish")
  /\ Len(calls) = 3
  /\ Cardinality({calls[i] : i \in 1..3}) = 3

\* A message that broadcast(e, data) posted is waiting for tab B.
Broadcasted(e) == \E i \in 1..Len(channel) : channel[i].source = "local" /\ channel[i].type = e

\* C19: when tab A has broadcast a data event, every callback subscribed to
\* that event on tab B's event bus is eventually invoked for the message.
C19_BroadcastReachesSubscribers ==
  \A e \in TabEvents :
    (Broadcasted(e) /\ e \in DOMAIN events) ~>
      \/ Called("receive") /\ lastOp.msg.source = "local" /\ lastOp.msg.type = e /\ e \in DOMAIN events /\ calls = events[e]
      \/ Receiver \in closed

\* C20: a received message that lacks a type, lacks a timestamp or carries a
\* type that is no data event name is dropped: nothing is published on the
\* receiving tab's event bus for it.
C20_MalformedIsDropped ==
  (Called("receive") /\ (~lastOp.msg.hasType \/ ~lastOp.msg.hasTimestamp \/ lastOp.msg.type \notin DataEventNames)) =>
    (bus = <<>> /\ calls = <<>>)

\* What subscribers of the last received message's type would be handed had
\* the event originated on this tab.
LocalForm == Wrapped(DataEntry("bus", lastOp.msg.type, 0, "data", FALSE), "local")

\* C21: an event re-published on the receiving tab after cross-tab delivery
\* has the payload shape of a locally originated event of the same type and
\* differs from it only in carrying source "remote" in place of "local".
C21_RemoteDiffersOnlyInSource ==
  (Called("receive") /\ bus # <<>>) => bus = <<Wrapped(LocalForm, "remote")>>

\* The records of the goal of the last call, as the call found them.
RecordsOf == ToArray(WhereParentEquals(Pre, "progress", lastOp.id))

\* The last calculateCompletion call found no fresh cache entry.
Miss == ~(lastOp.id \in DOMAIN lastOp.cache /\ lastOp.at - lastOp.cache[lastOp.id].timestamp < CACHE_TTL)

\* What a call that misses the cache returns, and the cache it leaves, when
\* both of its reads are served from the store d.
Uninterrupted(d, goalId) ==
  LET got == resumeAfterGetById(beginCalculateCompletion(NoCache, goalId, 0, 0), d)
  IN IF got.pc = "done" THEN [call |-> got, cache |-> NoCache] ELSE resumeAfterToArray(serveToArray(got, d), d, NoCache)

\* The completion as stated, with the time dimension over divisor.
Stated(divisor) ==
  IF ~Has(Pre, "goals", lastOp.id) \/ RecordsOf = <<>> THEN Zero
  ELSE LET goal == Pre["goals"][lastOp.id]
       IN IF goal.type \in {"count", "quantity"}
          THEN MathMin(Divide(SumValue(Pre, RecordsOf, 1), goal.targetValue), One)
          ELSE MathMin(MathMin(Divide(Ratio(Len(RecordsOf), 1), goal.targetValue), One),
                       MathMin(Divide(SumDuration(Pre, RecordsOf, 1), divisor), One))

TimeRequirementOf == IF Has(Pre, "goals", lastOp.id) THEN Pre["goals"][lastOp.id].timeRequirement ELSE NoNumber

\* C24 as stated: a calculateCompletion call that computes returns 0 for a
\* missing goal or a goal without records, min(sum of value / targetValue, 1)
\* for count and quantity goals and, for composite goals,
\* min(min(recordCount / targetValue, 1),
\*     min(sum of (duration or 0) / max(timeRequirement, 1), 1)).
C24_CompletionWithMax ==
  (Called("calculateCompletion") /\ Miss /\ ~lastOp.rejected) =>
    lastOp.result = Stated(IF TimeRequirementOf = NoNumber \/ Less(TimeRequirementOf, One) THEN One ELSE TimeRequirementOf)

\* C24 amended: the same, with the time dimension divided by timeRequirement
\* itself, and by 1 only when timeRequirement is absent or 0.
C24_CompletionFormula ==
  (Called("calculateCompletion") /\ Miss /\ ~lastOp.rejected) =>
    lastOp.result = Stated(IF TimeRequirementOf = NoNumber \/ TimeRequirementOf = Zero THEN One ELSE TimeRequirementOf)

\* A composite goal with two records whose time dimension is the weaker one.
C24_Witness ==
  /\ Called("calculateCompletion")
  /\ Has(Pre, "goals", lastOp.id)
  /\ Pre["goals"][lastOp.id].type = "composite"
  /\ Len(RecordsOf) = 2
  /\ Less(Zero, lastOp.result) /\ Less(lastOp.result, One)
  /\ lastOp.result # MathMin(Divide(Ratio(2, 1), Pre["goals"][lastOp.id].targetValue), One)

\* C25: the value calculateCompletion returns lies in [0, 1].
C25_CompletionInUnitInterval ==
  (Called("calculateCompletion") /\ ~lastOp.rejected) => (~Less(lastOp.result, Zero) /\ ~Less(One, lastOp.result))

\* The calculateCompletion call found a cache entry for its goal younger
\* than the TTL.
Hit == ~Miss

\* The cache holds an entry for goal g that is younger than the TTL now.
Fresh(g) == g \in DOMAIN completionCache /\ now - completionCache[g].timestamp < CACHE_TTL

\* C22: a calculateCompletion call that finds a cache entry younger than 60
\* seconds returns the cached value and reads neither table, and every call
\* leaves such an entry behind it, so that the next call for the same goal
\* within the TTL window reads nothing: two consecutive calls read the goal
\* once and its progress records once in total.
C22_SecondCallHitsCache ==
  Called("calculateCompletion") =>
    /\ Hit => (storeCalls = <<>> /\ lastOp.result = lastOp.cache[lastOp.id].value)
    /\ Fresh(lastOp.id)

\* C23: clearCompletionCache(goalId) removes the entry of goalId and leaves
\* every other entry as it was; clearCompletionCache() leaves no entry; a
\* calculateCompletion call for a goal without an entry reads the store, and
\* one for a goal with an entry younger than the TTL is served from the cache
\* without a read.
C23_ClearRemovesOnlyThatEntry ==
  /\ (Called("clearCompletionCache") /\ lastOp.id # 0) =>
        /\ DOMAIN completionCache = DOMAIN lastOp.cache \ {lastOp.id}
        /\ \A g \in DOMAIN completionCache : completionCache[g] = lastOp.cache[g]
  /\ (Called("clearCompletionCache") /\ lastOp.id = 0) => DOMAIN completionCache = {}
  /\ (Called("calculateCompletion") /\ lastOp.id \notin DOMAIN lastOp.cache) =>
        storeCalls[1] = "goals.get"
  /\ (Called("calculateCompletion") /\ Hit) =>
        (storeCalls = <<>> /\ lastOp.result = lastOp.cache[lastOp.id].value /\ completionCache = lastOp.cache)

\* clearCompletionCache(1) was called with goals 1 and 2 both cached, and
\* the entry of goal 2 is still there.
C23_Witness ==
  /\ Called("clearCompletionCache")
  /\ lastOp.id = 1
  /\ DOMAIN lastOp.cache = {1, 2}
  /\ DOMAIN completionCache = {2}

\* The progress operation that just ran, on a record of goal lastOp.val.
ProgressMutated == (Called("addProgress") \/ Called("updateProgress") \/ Called("deleteProgress")) /\ lastOp.ok

\* The cache entry of goal g is what a computation from the store as it is
\* now leaves: none, or one holding the completion of the current records.
Recomputed(g) ==
  LET r == Uninterrupted(db, g)
  IN /\ (g \in DOMAIN completionCache) = (g \in DOMAIN r.cache)
     /\ g \in DOMAIN completionCache => completionCache[g].value = r.call.value

\* C26: with the relation handlers installed, adding, updating or deleting a
\* progress record of goal g publishes a PROGRESS_ADDED, PROGRESS_UPDATED or
\* PROGRESS_DELETED event, and by the time its handler has run the cached
\* completion of g is no longer the old one: it has been invalidated and
\* recomputed from the store.
C26_ProgressMutationRefreshesCompletion ==
  ProgressMutated =>
    /\ \E i \in 1..Len(bus) : bus[i].type \in {PROGRESS_ADDED, PROGRESS_UPDATED, PROGRESS_DELETED}
    /\ Recomputed(lastOp.val)

\* Every store refresh named first was started before every one named later.
Before(first, later) ==
  \A i, j \in 1..Len(storeCalls) : (storeCalls[i] = first /\ storeCalls[j] = later) => i < j

Started(name) == \E i \in 1..Len(storeCalls) : storeCalls[i] = name

\* C27: a cascading delete of a category that has hobbies starts a hobby-list
\* refresh, then a goal-list refresh, then a progress-list refresh, in that
\* order, and leaves no completion-cache entry for a goal of the deleted
\* subtree.
C27_CategoryCascadeRefreshesInOrder ==
  (Called("deleteWithRelated") /\ lastOp.table = "categories" /\ lastOp.ok /\ SubHobbies(lastOp.id) # {}) =>
    /\ Started("hobbyStore.fetchHobbies") /\ Started("goalStore.fetchGoals") /\ Started("progressStore.fetchProgress")
    /\ Before("hobbyStore.fetchHobbies", "goalStore.fetchGoals")
    /\ Before("goalStore.fetchGoals", "progressStore.fetchProgress")
    /\ \A g \in SubGoals(lastOp.id) : g \notin DOMAIN completionCache

\* The callbacks of the k-th setupRelationHandlers() call.
Handlers(k) == {RelationHandler(k, RelationEvents[i]) : i \in 1..Len(RelationEvents)}

\* A callback list, and a bus, without the callbacks of the k-th setup.
Without(callbacks, k) == SelectSeq(callbacks, LAMBDA c : c \notin Handlers(k))

BusWithout(ev, k) == [e \in DOMAIN ev |-> Without(ev[e], k)]

\* The subscriptions a bus holds: the callbacks of every event that has any.
Subscriptions(ev) == [e \in {x \in DOMAIN ev : ev[x] # <<>>} |-> ev[e]]

Removed(k) == k \in 1..Len(relations) /\ relations[k] = "removed"

\* C28: setupRelationHandlers() adds its own handlers and nothing else; the
\* cleanup function it returned, when it returns, takes exactly these handlers
\* off and leaves every other subscription in place and in order, so that
\* setup followed by cleanup leaves the subscriptions the bus held before;
\* from then on no list holds a handler of that setup and no publish invokes
\* one.
C28_CleanupRestoresSubscriptions ==
  /\ Called("setupRelationHandlers") =>
        /\ Subscriptions(BusWithout(events, lastOp.val)) = Subscriptions(lastOp.subs)
        /\ \A i \in 1..Len(RelationEvents) :
             events[RelationEvents[i]][Len(events[RelationEvents[i]])] = RelationHandler(lastOp.val, RelationEvents[i])
  /\ (Called("cleanup") /\ lastOp.ok) => events = BusWithout(lastOp.subs, lastOp.val)
  /\ Subscriptions(cleanup(setupRelationHandlers(events, Len(relations) + 1), Len(relations) + 1).events) = Subscriptions(events)
  /\ \A k \in Setups : Removed(k) => events = BusWithout(events, k)
  /\ Called("publish") => \A i \in 1..Len(calls) : \A k \in Setups : Removed(k) => calls[i] \notin Handlers(k)

\* The cleanup of a setup whose eight handlers were all subscribed has
\* returned, and the logger subscribed to HOBBY_DELETED is still there.
C28_Witness ==
  /\ Called("cleanup") /\ lastOp.ok
  /\ \A i \in 1..Len(RelationEvents) :
       /\ RelationEvents[i] \in DOMAIN lastOp.subs
       /\ IndexOf(lastOp.subs[RelationEvents[i]], RelationHandler(lastOp.val, RelationEvents[i])) # 0
  /\ IndexOf(events[HOBBY_DELETED], "logger") # 0

\* C30: update(id, changes) and delete(id) on an id that has no row in the
\* table fail (NotFound) in place of completing successfully.
C30_MissingRowFails ==
  ((Called("update") \/ Called("delete")) /\ ~Has(Pre, lastOp.table, lastOp.id)) => ~lastOp.ok

\* C29: bulkAdd, bulkPut and bulkDelete either apply every row of the batch
\* or fail and leave every row of the table as it was, domain fields and
\* sync metadata alike.
C29_BulkIsAllOrNothing ==
  /\ (Called("bulkAdd") \/ Called("bulkPut")) /\ lastOp.ok =>
       \A k \in 1..Len(lastOp.batch) : Has(db, lastOp.table, lastOp.batch[k])
  /\ Called("bulkDelete") /\ lastOp.ok =>
       \A k \in 1..Len(lastOp.batch) : ~Has(db, lastOp.table, lastOp.batch[k])
  /\ (Called("bulkAdd") \/ Called("bulkPut") \/ Called("bulkDelete")) /\ ~lastOp.ok =>
       db[lastOp.table] = Pre[lastOp.table]

\* C38: a local update of a row whose pending operation is create (created
\* locally, not synced since) leaves the pending operation at create.
C38_PendingCreateSurvivesUpdate ==
  (Called("update") /\ Has(Pre, lastOp.table, lastOp.id) /\ Pre[lastOp.table][lastOp.id].pendingOperation = CREATE
     /\ Pre[lastOp.table][lastOp.id].syncStatus = PENDING) =>
    db[lastOp.table][lastOp.id].pendingOperation = CREATE

\* C39: markForSync on an existing row leaves the row's lastSyncedAt,
\* serverUpdatedAt and retryCount, and its domain fields, as they were.
C39_MarkForSyncKeepsSyncHistory ==
  (Called("markForSync") /\ Has(Pre, lastOp.table, lastOp.id)) =>
    /\ db[lastOp.table][lastOp.id].lastSyncedAt = Pre[lastOp.table][lastOp.id].lastSyncedAt
    /\ db[lastOp.table][lastOp.id].serverUpdatedAt = Pre[lastOp.table][lastOp.id].serverUpdatedAt
    /\ db[lastOp.table][lastOp.id].retryCount = Pre[lastOp.table][lastOp.id].retryCount
    /\ DomainOf(db[lastOp.table][lastOp.id]) = DomainOf(Pre[lastOp.table][lastOp.id])

BaseOps == {"getAll", "getById", "add", "update", "delete", "bulkAdd", "bulkPut", "bulkDelete"}

\* The items of the last bulk call whose key was taken: by a row of the
\* table, or by an item before it in the batch.
Refused ==
  {k \in 1..Len(lastOp.batch) :
     \/ Has(Pre, lastOp.table, lastOp.batch[k])
     \/ \E j \in 1..(k - 1) : lastOp.batch[j] = lastOp.batch[k]}

\* The exception the store raised during the last base-service operation, if
\* it raised one: the injected one, or the store's own refusal of a key that
\* is already there.  A bulk operation on an empty batch makes one store
\* call only.
StoreFailure ==
  IF Called("add") /\ lastOp.fault.at # 1 /\ Has(Pre, lastOp.table, lastOp.id) THEN ConstraintError
  ELSE IF Called("bulkAdd") /\ lastOp.fault.at # 1 /\ Refused # {}
  THEN BulkError(lastOp.table, Cardinality(Refused), Len(lastOp.batch))
  ELSE IF lastOp.name \in {"bulkAdd", "bulkPut", "bulkDelete"} /\ lastOp.batch = <<>> /\ lastOp.fault.at = 2 THEN NoError
  ELSE lastOp.fault.error

\* C31: a base-service operation whose store call fails rejects with an Error
\* whose message is the operation's description, ": ", and the message of the
\* store's exception; what the caller gets is never the store's exception
\* itself; an operation whose store calls succeed does not reject.
C31_StoreFailureIsWrapped ==
  lastOp.name \in BaseOps =>
    /\ StoreFailure # NoError =>
         /\ lastOp.rejected
         /\ lastOp.error = [name |-> "Error", message |-> Description(lastOp.name, lastOp.id) \o ": " \o StoreFailure.message]
         /\ lastOp.error # StoreFailure
    /\ StoreFailure = NoError => ~lastOp.rejected

\* delete(id) of an existing row whose table.delete call was rejected: the
\* caller has the wrapped error and the row is still there, marked.
C31_Witness ==
  /\ Called("delete") /\ lastOp.fault.at = 2
  /\ Has(Pre, lastOp.table, lastOp.id)
  /\ lastOp.rejected
  /\ Has(db, lastOp.table, lastOp.id)
  /\ db[lastOp.table][lastOp.id].pendingOperation = DELETE

\* The store call of the last safeDelete that was rejected: the count (1),
\* or - when the row has no children - one of the calls of delete (2 to 4).
SafeDeleteFailedAt ==
  IF lastOp.fault.at = 1 \/ (lastOp.fault.at > 1 /\ ~hasRelated(Pre, lastOp.table, lastOp.id)) THEN lastOp.fault.at ELSE 0

\* C32: safeDelete(id) never rejects; when the related-children check, the
\* delete or the notification after it fails, it resolves with success false
\* and a message that ends in the message of the failure.
C32_SafeDeleteNeverRejects ==
  Called("safeDelete") =>
    /\ ~lastOp.rejected
    /\ SafeDeleteFailedAt = 1 =>
         (~lastOp.ok /\ lastOp.message = "delete failed: " \o Description("hasRelated", lastOp.id) \o ": " \o lastOp.fault.error.message)
    /\ SafeDeleteFailedAt \in {2, 3} =>
         (~lastOp.ok /\ lastOp.message = "delete failed: " \o Description("delete", lastOp.id) \o ": " \o lastOp.fault.error.message)
    /\ SafeDeleteFailedAt = 4 =>
         (~lastOp.ok /\ lastOp.message = "delete failed: " \o lastOp.fault.error.message)
    /\ (SafeDeleteFailedAt = 0 /\ ~hasRelated(Pre, lastOp.table, lastOp.id)) => lastOp.ok

\* safeDelete of an existing row without children whose notification failed:
\* the row is gone and the caller is told success false.
C32_Witness ==
  /\ Called("safeDelete") /\ lastOp.fault.at = 4
  /\ Has(Pre, lastOp.table, lastOp.id)
  /\ ~Has(db, lastOp.table, lastOp.id)
  /\ ~lastOp.ok /\ ~lastOp.rejected

\* The rows a removing step st takes out of the store d.
Removes(d, st) ==
  IF st.kind = "deleteWhere" THEN WhereParentEquals(d, st.table, st.id) ELSE {st.id} \cap DOMAIN d[st.table]

\* The cascades of the Category and Hobby services in flight whose pending
\* request is a delete that the store is about to serve; c.view is the store
\* as the transaction sees it at that moment.
Removing ==
  {c \in {inflight[i] : i \in DOMAIN inflight} :
     /\ c.op.name = "deleteWithRelated" /\ c.op.table \in {"categories", "hobbies"}
     /\ c.scope # AllTables
     /\ Head(c.todo).kind \in {"deleteWhere", "delete"}
     /\ c.op.fault.at # c.done + 1}

\* Entry a is the deletion event of a level directly below the level of
\* entry b, in the subtree b is about.
Below(a, b) ==
  /\ a.ch = "bus" /\ b.ch = "bus"
  /\ \/ a.type = PROGRESS_DELETED /\ b.type = GOAL_DELETED /\ a.id \in DOMAIN Pre["goals"] /\ Pre["goals"][a.id].parent = b.id
     \/ a.type = GOAL_DELETED /\ b.type = HOBBY_DELETED /\ b.key = "id" /\ a.id = b.id
     \/ a.type = GOAL_DELETED /\ b.type = HOBBY_DELETED /\ b.key = "categoryId" /\ a.id \in DOMAIN Pre["hobbies"] /\ Pre["hobbies"][a.id].parent = b.id
     \/ a.type = HOBBY_DELETED /\ b.type = CATEGORY_DELETED

\* C33: in the cascades of the Category and Hobby services every row is
\* pending / delete at the moment it is removed and has no child row left at
\* that moment (leaves first), and the deletion event of a level comes after
\* the deletion events of the level below it in its subtree: PROGRESS_DELETED
\* of a goal before GOAL_DELETED of its hobby, that before HOBBY_DELETED,
\* that before CATEGORY_DELETED; a cascade that completes has published the
\* event of every level.
C33_LeavesFirst ==
  /\ \A c \in Removing :
       LET st == Head(c.todo)
       IN \A id \in Removes(c.view, st) :
            /\ c.view[st.table][id].syncStatus = PENDING
            /\ c.view[st.table][id].pendingOperation = DELETE
            /\ st.table # "progress" => WhereParentEquals(c.view, ChildTable(st.table), id) = {}
  /\ (Called("deleteWithRelated") /\ lastOp.table \in {"categories", "hobbies"}) =>
    /\ \A i, j \in 1..Len(bus) : Below(bus[i], bus[j]) => i < j
    /\ lastOp.ok =>
         /\ lastOp.table = "categories" => Published({CATEGORY_DELETED}) # {}
         /\ Published({HOBBY_DELETED}) # {}
         /\ \A h \in (IF lastOp.table = "hobbies" THEN {lastOp.id} ELSE SubHobbies(lastOp.id)) :
              /\ \E i \in 1..Len(bus) : bus[i].type = GOAL_DELETED /\ bus[i].id = h /\ bus[i].ch = "bus"
              /\ \A g \in WhereParentEquals(Pre, "goals", h) :
                   \E i \in 1..Len(bus) : bus[i].type = PROGRESS_DELETED /\ bus[i].id = g /\ bus[i].ch = "bus"

\* A category cascade that completed on two hobbies with a goal each and a
\* progress row under each goal.
C33_Witness ==
  /\ Called("deleteWithRelated") /\ lastOp.table = "categories" /\ lastOp.ok
  /\ Cardinality(SubHobbies(lastOp.id)) = 2
  /\ \A h \in SubHobbies(lastOp.id) : WhereParentEquals(Pre, "goals", h) # {}
  /\ Cardinality(SubProgress(lastOp.id)) = 2
  /\ \A g \in SubGoals(lastOp.id) : WhereParentEquals(Pre, "progress", g) # {}
  /\ RowCount(db) = 0

BatchCalled == lastOp.table \in BatchTables /\ (Called("bulkUpdateWithTransaction") \/ Called("bulkCreateWithTransaction"))

\* The entries of one type that the operation put on one channel.
EntriesOf(ch, type) == SelectSeq(bus, LAMBDA e : e.ch = ch /\ e.type = type)

\* The data-change event of the batch: <table>:changed for an update,
\* <table>:added for a create.
BatchEvent == IF Called("bulkUpdateWithTransaction") THEN ChangedEvent(lastOp.table) ELSE AddedEvent(lastOp.table)

\* One notification for the whole batch: one event on the local bus, one
\* broadcast of it, one database:changed.
NotifiedOnce ==
  /\ Len(EntriesOf("bus", BatchEvent)) = 1
  /\ Len(EntriesOf("channel", BatchEvent)) = 1
  /\ Len(EntriesOf("bus", DATABASE_CHANGED)) = 1

\* C34 as stated: a successful bulkUpdateWithTransaction or
\* bulkCreateWithTransaction publishes exactly one data-change event for the
\* batch, and that event carries the number of rows of the batch.
C34_OneEventCarryingCount ==
  (BatchCalled /\ lastOp.ok) =>
    /\ Len(EntriesOf("bus", BatchEvent)) = 1
    /\ EntriesOf("bus", BatchEvent)[1].key = "count"
    /\ EntriesOf("bus", BatchEvent)[1].id = Len(lastOp.batch)

\* The payload of the batch event: the number of rows for an update, the
\* created rows (as many as the batch has, now in the table) and no count
\* for a create.
BatchPayload ==
  LET e == EntriesOf("bus", BatchEvent)[1]
  IN IF Called("bulkUpdateWithTransaction")
     THEN e.key = "count" /\ e.id = Len(lastOp.batch)
     ELSE /\ e.key = lastOp.table
          /\ Len(e.rows) = Len(lastOp.batch)
          /\ \A k \in 1..Len(e.rows) : ~Has(Pre, lastOp.table, e.rows[k]) /\ Has(db, lastOp.table, e.rows[k])

\* The broadcast of the notification of the last batch threw: the channel
\* was closed.
NotificationThrew == lastOp.fault.error = InvalidStateError

\* C34 amended: a batch is notified exactly once after its transaction has
\* committed, whatever its size; the event of bulkUpdateWithTransaction
\* carries the number of rows, the event of bulkCreateWithTransaction carries
\* the created rows (as many as the batch has) and no count.  A batch whose
\* transaction failed notifies nothing.  When the broadcast of the
\* notification throws, the batch stays committed, its event has been
\* published once on the local bus and nowhere else, and the call rejects
\* with the wrapped error.
C34_OneEventPerBatch ==
  BatchCalled =>
    CASE lastOp.ok ->
           NotifiedOnce /\ BatchPayload
      [] ~lastOp.ok /\ NotificationThrew ->
           /\ lastOp.rejected
           /\ lastOp.error = OperationError(BatchDescription(lastOp.name, lastOp.table), InvalidStateError)
           /\ Len(EntriesOf("bus", BatchEvent)) = 1
           /\ BatchPayload
           /\ EntriesOf("channel", BatchEvent) = <<>>
           /\ EntriesOf("bus", DATABASE_CHANGED) = <<>>
           /\ \A k \in 1..Len(lastOp.batch) :
                Has(Pre, lastOp.table, lastOp.batch[k]) =>
                  (Called("bulkUpdateWithTransaction") => db[lastOp.table][lastOp.batch[k]].pendingOperation = UPDATE)
      [] OTHER ->
           /\ lastOp.rejected
           /\ EntriesOf("bus", BatchEvent) = <<>>
           /\ EntriesOf("channel", BatchEvent) = <<>>
           /\ EntriesOf("bus", DATABASE_CHANGED) = <<>>
           /\ db[lastOp.table] = Pre[lastOp.table]

\* A batch of two rows was created and committed, and the broadcast of its
\* notification threw.
C34_RejectedWitness ==
  /\ Called("bulkCreateWithTransaction")
  /\ NotificationThrew /\ lastOp.rejected
  /\ Len(lastOp.batch) = 2
  /\ Cardinality(DOMAIN db[lastOp.table]) = Cardinality(DOMAIN Pre[lastOp.table]) + 2
  /\ Len(EntriesOf("bus", BatchEvent)) = 1

\* A batch of two rows was created and notified.
C34_Witness ==
  /\ Called("bulkCreateWithTransaction")
  /\ lastOp.ok
  /\ Len(lastOp.batch) = 2
  /\ NotifiedOnce

\* A batch of two rows was updated and notified.
C34_UpdateWitness ==
  /\ Called("bulkUpdateWithTransaction")
  /\ lastOp.ok
  /\ Len(lastOp.batch) = 2
  /\ \A k \in 1..2 : Has(db, lastOp.table, lastOp.batch[k])
  /\ NotifiedOnce

\* The store with only the n oldest progress records.
Oldest(n) == [db EXCEPT !["progress"] = [i \in DOMAIN db["progress"] \cap 1..n |-> db["progress"][i]]]

\* What calculateCompletion computes from the n oldest records.
ValueOn(n) == Uninterrupted(Oldest(n), InFlightGoal).call.value

\* C35: a calculateCompletion(g) call that started after a progress
\* mutation of g was committed and clearCompletionCache(g) was then called
\* returns a value computed from progress data at least as new as that
\* mutation, whatever calls were in flight when the cache was cleared.
C35_NoStaleValueAfterClear ==
  \A s \in Slots :
    inflight[s].pc = "done" =>
      \E n \in inflight[s].after..Cardinality(DOMAIN db["progress"]) : inflight[s].value = ValueOn(n)

\* Two records were committed, each followed by clearCompletionCache(g); a
\* call that started after the second clear has returned the completion of
\* the two records, and another call, started before that clear, is still in
\* flight.
C35_Witness ==
  /\ Cleared = 2
  /\ \E s \in Slots :
       /\ inflight[s].pc = "done" /\ inflight[s].after = 2
       /\ inflight[s].value = ValueOn(2) /\ inflight[s].value # ValueOn(1)
       /\ \E o \in Slots \ {s} : inflight[o].pc \in {"getById", "toArray"} /\ inflight[o].after < 2

\* The names held by the categories table, as a bag of name -> row count.
NamesHeld == [n \in {db["categories"][i].name : i \in DOMAIN db["categories"]} |-> Cardinality({i \in DOMAIN db["categories"] : db["categories"][i].name = n})]

\* C40: from an empty categories table, once every initializeDatabase() call
\* has returned and one of them returned true, the categories table holds
\* exactly the three default categories, each once.
C40_ExactlyThreeDefaults ==
  ((\A s \in 1..MaxTabs : inflight[s].pc \in {"none", "done"}) /\ (\E s \in 1..MaxTabs : inflight[s].result = "true")) =>
    NamesHeld = [n \in {DefaultNames[k] : k \in 1..Len(DefaultNames)} |-> 1]

\* The number of times a callback was invoked by the last publish.
Invocations(callback) == Len(SelectSeq(calls, LAMBDA c : c = callback))

\* C37: one publish(event, data) invokes every callback that was subscribed
\* to the event when it began exactly once, also when a callback calls its
\* own unsubscribe closure while it is being dispatched.
C37_EverySubscriberInvokedOnce ==
  (Called("publish") /\ lastOp.event \in DOMAIN lastOp.subs) =>
    \A k \in 1..Len(lastOp.subs[lastOp.event]) : Invocations(lastOp.subs[lastOp.event][k]) = 1

\* A safeDelete call whose pending request is the removal of its row is in
\* flight on row id of table t.
SafeDeleting(t, id) ==
  \E i \in DOMAIN inflight :
    /\ inflight[i].op.name = "safeDelete" /\ inflight[i].op.table = t /\ inflight[i].op.id = id
    /\ inflight[i].todo # <<>> /\ Head(inflight[i].todo).kind = "delete"

\* C36: whatever adds of children run next to it, safeDelete removes the
\* parent row (and goes on to return success = true) only if the parent has
\* no children at the moment its row is removed, so no child is left without
\* its parent.
C36_SafeDeleteLeavesNoOrphan ==
  [][\A t \in {"categories", "hobbies"}, id \in Ids :
       (SafeDeleting(t, id) /\ Has(db, t, id) /\ ~Has(db', t, id)) => WhereParentEquals(db, ChildTable(t), id) = {}]_vars
====
